---------------------------- MODULE Spec2Model ----------------------------
(***************************************************************************)
(* Font-effects generator: the editor's composition state (App), the      *)
(* export render pipeline (updateImage / renderComposition), the          *)
(* interaction controller (VisualCanvas: hit-testing, drag / resize state *)
(* machine, background image cache) and the draw operations the two       *)
(* drawing routines (drawText, drawTextWithEffects) issue.                *)
(*                                                                         *)
(* Units.  Canvas coordinates (layer x / y, pointer coordinates, widths,  *)
(* guides) are held in TENTHS of a canvas pixel, so that the 0.6 and 0.8  *)
(* width factors and the halves used by the guide computation are exact   *)
(* integers.  Font sizes, client (CSS) coordinates and canvas dimensions  *)
(* are whole pixels.  Text is a sequence of one-character strings.        *)
(***************************************************************************)
EXTENDS Integers, Sequences, FiniteSets, TLC

VARIABLES
    \* ---- App state (src/unnamed/part_002, second file) ----
    canvasSizeId,          \* useState<CanvasSizeId>
    backgroundImage,       \* useState<string | null>   ("null" = none)
    textBlocks,            \* useState<TextBlock[]>
    selectedTextBlockId,   \* useState<string | null>
    outputImage,           \* useState<string | null>   (a data URL, or "null")
    renderRef,             \* useRef(0): sequence number of the latest render
    renders,               \* the renderComposition promises still pending
    \* ---- VisualCanvas state (src/src/components/VisualCanvas.tsx) ----
    isDragging,
    dragOffset,
    draggedTextBlockId,
    dragMode,
    initialFontSize,
    animationFrameId,      \* 0 = null
    alignmentGuides,
    backgroundImageRef,    \* useRef<HTMLImageElement | null>
    backgroundImageLoadedRef,
    imageLoads,            \* Image objects of the load effect whose onload is pending
    frames,                \* requestAnimationFrame callbacks not yet run
    listenerFrameId,       \* animationFrameId captured by the registered document listeners
    pendingFrameId,        \* value handed to setAnimationFrameId and not rendered yet
    liveCanvas,            \* the <canvas> of VisualCanvas: its context and what was drawn last
    lastDraw,              \* the last call of drawCanvas: what it read and what it issued
    previousDraw,          \* the call of drawCanvas before it
    \* ---- a call of renderComposition (src/src/utils/canvas.ts) ----
    renderCall,            \* its arguments (NoCall before the first call)
    exportCanvas,          \* the canvas it created
    img,                   \* its Image: "none", "loading", "loaded" or "failed"
    resolved,              \* the values its promise's resolve was called with
    previousRender,        \* the call before it: arguments, operations, result
    \* ---- PresetManager state (src/unnamed/part_005, first file) ----
    presets,               \* useState<SavedPreset[]> and its copy in localStorage
    \* ---- bookkeeping ----
    lastEvent,             \* the last event or callback handled (bookkeeping)
    nEvents                \* number of user events so far

appVars    == <<canvasSizeId, backgroundImage, textBlocks, selectedTextBlockId>>
renderVars == <<outputImage, renderRef, renders>>
dragVars   == <<isDragging, dragOffset, draggedTextBlockId, dragMode, initialFontSize,
                animationFrameId, alignmentGuides, frames, listenerFrameId,
                pendingFrameId>>
imageVars  == <<backgroundImageRef, backgroundImageLoadedRef, imageLoads>>
drawVars   == <<liveCanvas, lastDraw, previousDraw>>
callVars   == <<renderCall, exportCanvas, img, resolved, previousRender>>
compositorVars == <<drawVars, callVars>>
vars       == <<appVars, renderVars, dragVars, imageVars, compositorVars, presets,
                lastEvent, nEvents>>

-----------------------------------------------------------------------------
(* Bounds of the model *)

\* user events (pointer, panel, toolbar) per behaviour of Spec
MaxEvents == 3
\* render requests per behaviour of SpecImage
MaxRenders == 3
\* pointer-downs per behaviour of SpecHit
MaxHitDowns == 1
\* pointer events per behaviour of SpecDrag
MaxDragEvents == 4
\* calls of renderComposition and drawCanvas per behaviour of SpecCompose
MaxDraws == 2
\* pointer events per behaviour of SpecFrames
MaxFrameEvents == 3
\* user events per behaviour of SpecApp
MaxAppEvents == 2

-----------------------------------------------------------------------------
(* Arithmetic helpers *)

Max(a, b) == IF a >= b THEN a ELSE b
Min(a, b) == IF a <= b THEN a ELSE b
Abs(a)    == IF a >= 0 THEN a ELSE -a
\* a length in canvas pixels, in coordinate units
Px(n)     == 10 * n
\* a sequence without its i-th element
removeAt(seq, i) == SubSeq(seq, 1, i - 1) \o SubSeq(seq, i + 1, Len(seq))

-----------------------------------------------------------------------------
(* Text *)

IsSpace(c) == c = " "

RECURSIVE TrimStart(_)
TrimStart(s) == IF s # <<>> /\ IsSpace(Head(s)) THEN TrimStart(Tail(s)) ELSE s

RECURSIVE TrimEnd(_)
TrimEnd(s) ==
    IF s # <<>> /\ IsSpace(s[Len(s)]) THEN TrimEnd(SubSeq(s, 1, Len(s) - 1)) ELSE s

\* String.prototype.trim
Trim(s) == TrimEnd(TrimStart(s))

\* !textBlock.text.trim()
IsBlank(text) == Trim(text) = <<>>

-----------------------------------------------------------------------------
(* Catalogs *)

\* canvas size presets: { id, width, height }
canvasSizes ==
    [square        |-> [width |-> 1080, height |-> 1080],
     youtube_hd    |-> [width |-> 1920, height |-> 1080],
     youtube_thumb |-> [width |-> 1280, height |-> 720],
     youtube_short |-> [width |-> 1080, height |-> 1920]]

CanvasSizeIds == DOMAIN canvasSizes

activeCanvasSize(sizeId) == canvasSizes[sizeId]

\* the three pre-seeded layers, positioned for the canvas size of the current render
initialTextBlocks(size) ==
    << [id |-> "main", type |-> "main",
        text |-> <<"k", "o", "u", "d", "a">>,      \* five characters, as the seeded title
        fontId |-> "jason-handwriting-1", effectIds |-> <<"shadow">>,
        color1 |-> "#FFFFFF", color2 |-> "#000000", fontSize |-> 120,
        x |-> Px(size.width) \div 2 - Px(200),
        y |-> (Px(size.height) * 4) \div 10 - Px(60)],
       [id |-> "sub1", type |-> "sub1",
        text |-> <<"S", "o", "n", "i", "c", " ", "P", "u", "l", "s", "e">>,
        fontId |-> "jason-handwriting-1", effectIds |-> <<>>,
        color1 |-> "#FFFFFF", color2 |-> "#000000", fontSize |-> 60,
        x |-> Px(size.width) \div 10,
        y |-> (Px(size.height) * 6) \div 10],
       [id |-> "sub2", type |-> "sub2",
        text |-> <<>>,
        fontId |-> "jason-handwriting-1", effectIds |-> <<>>,
        color1 |-> "#FFFFFF", color2 |-> "#000000", fontSize |-> 40,
        x |-> Px(size.width) \div 10,
        y |-> (Px(size.height) * 8) \div 10] >>

LayerIds == {"main", "sub1", "sub2"}

-----------------------------------------------------------------------------
(* Geometry: VisualCanvas *)

\* getTextWidth: text.length * fontSize * 0.6 (the per-character estimate; the
\* measured width of the browser is taken to have the same per-character advance)
getTextWidth(text, fontSize) == Len(text) * fontSize * 6

\* the layer's height is its font size
textHeight(tb) == Px(tb.fontSize)

resizeHandleSize == 16

\* canvas.getBoundingClientRect(): the canvas is laid out at the full width of its
\* container, its height following the aspect ratio of the current canvas size
getCanvasRect(sizeId) ==
    [left |-> 16, top |-> 64, width |-> 320,
     height |-> (320 * canvasSizes[sizeId].height) \div canvasSizes[sizeId].width]

\* getCanvasCoordinates: client -> canvas coordinates, with the canvasWidth /
\* canvasHeight of the calling render and the rectangle as laid out now
getCanvasCoordinates(clientX, clientY, canvasWidth, canvasHeight, rect) ==
    [x |-> ((clientX - rect.left) * Px(canvasWidth)) \div rect.width,
     y |-> ((clientY - rect.top) * Px(canvasHeight)) \div rect.height]

NoHit == [hit |-> FALSE, index |-> 0, mode |-> "move"]

\* one iteration of the loop of findTextBlockAtPosition: the test of layer tb
inResizeHandle(tb, x, y) ==
    LET textWidth     == getTextWidth(tb.text, tb.fontSize)
        resizeHandleX == tb.x + textWidth - Px(resizeHandleSize)
        resizeHandleY == tb.y + textHeight(tb) - Px(resizeHandleSize)
    IN  /\ x >= resizeHandleX /\ x <= resizeHandleX + Px(resizeHandleSize)
        /\ y >= resizeHandleY /\ y <= resizeHandleY + Px(resizeHandleSize)

inTextArea(tb, x, y) ==
    LET textWidth == getTextWidth(tb.text, tb.fontSize)
    IN  /\ x >= tb.x /\ x <= tb.x + textWidth
        /\ y >= tb.y /\ y <= tb.y + textHeight(tb)

\* the loop body without its `if (!textBlock.text.trim()) continue`
hitModeOfAnyLayer(tb, x, y) ==
    IF inResizeHandle(tb, x, y) THEN "resize"
    ELSE IF inTextArea(tb, x, y) THEN "move"
    ELSE "none"

\* the loop body testing the text area before the resize handle
hitModeAreaFirst(tb, x, y) ==
    IF IsBlank(tb.text) THEN "none"
    ELSE IF inTextArea(tb, x, y) THEN "move"
    ELSE IF inResizeHandle(tb, x, y) THEN "resize"
    ELSE "none"

\* the mode the loop body returns for a layer it tests, "none" to go on
hitMode(tb, x, y) ==
    IF IsBlank(tb.text) THEN "none"
    ELSE IF inResizeHandle(tb, x, y) THEN "resize"
    ELSE IF inTextArea(tb, x, y) THEN "move"
    ELSE "none"

RECURSIVE findFrom(_, _, _, _)
findFrom(blocks, i, x, y) ==
    IF i < 1 THEN NoHit
    ELSE LET m == hitMode(blocks[i], x, y)
         IN  IF m # "none" THEN [hit |-> TRUE, index |-> i, mode |-> m]
             ELSE findFrom(blocks, i - 1, x, y)

\* the loop running from the first layer up: for (let i = 0; i < length; i++)
RECURSIVE findUpFrom(_, _, _, _)
findUpFrom(blocks, i, x, y) ==
    IF i > Len(blocks) THEN NoHit
    ELSE LET m == hitMode(blocks[i], x, y)
         IN  IF m # "none" THEN [hit |-> TRUE, index |-> i, mode |-> m]
             ELSE findUpFrom(blocks, i + 1, x, y)

findTextBlockAtPositionBottomFirst(blocks, x, y) == findUpFrom(blocks, 1, x, y)

\* for (let i = textBlocks.length - 1; i >= 0; i--)
findTextBlockAtPosition(blocks, x, y) == findFrom(blocks, Len(blocks), x, y)

\* textBlocks.find(tb => tb.id === id): the index of the first match, 0 if none
findIndex(blocks, id) ==
    IF \E i \in 1..Len(blocks) : blocks[i].id = id
    THEN CHOOSE i \in 1..Len(blocks) :
            /\ blocks[i].id = id
            /\ \A j \in 1..(i - 1) : blocks[j].id # id
    ELSE 0

-----------------------------------------------------------------------------
(* calculateAlignmentGuides *)

tolerance == 5

near(a, b) == Abs(a - b) <= Px(tolerance)

\* the guides one sibling layer contributes, in push order
RECURSIVE selectSeq(_)
selectSeq(pairs) ==
    IF pairs = <<>> THEN <<>>
    ELSE IF Head(pairs)[1] THEN <<Head(pairs)[2]>> \o selectSeq(Tail(pairs))
    ELSE selectSeq(Tail(pairs))

\* the guides of a sibling without the test of its text: a blank layer contributes
\* like any other
blockGuidesOfBlank(d, block) ==
    LET dW == getTextWidth(d.text, d.fontSize)
        bW == getTextWidth(block.text, block.fontSize)
        dL == d.x                    bL == block.x
        dR == d.x + dW               bR == block.x + bW
        dT == d.y                    bT == block.y
        dB == d.y + textHeight(d)    bB == block.y + textHeight(block)
        dCX == d.x + dW \div 2       bCX == block.x + bW \div 2
        dCY == d.y + textHeight(d) \div 2
        bCY == block.y + textHeight(block) \div 2
    IN  IF block.id = d.id
        THEN [vertical |-> <<>>, horizontal |-> <<>>]
        ELSE [vertical |-> selectSeq(<< <<near(dL, bL), bL>>, <<near(dR, bR), bR>>,
                                        <<near(dCX, bCX), bCX>>, <<near(dL, bR), bR>>,
                                        <<near(dR, bL), bL>> >>),
              horizontal |-> selectSeq(<< <<near(dT, bT), bT>>, <<near(dB, bB), bB>>,
                                          <<near(dCY, bCY), bCY>>, <<near(dT, bB), bB>>,
                                          <<near(dB, bT), bT>> >>)]

blockGuides(d, block) ==
    LET dW == getTextWidth(d.text, d.fontSize)
        bW == getTextWidth(block.text, block.fontSize)
        dL == d.x                    bL == block.x
        dR == d.x + dW               bR == block.x + bW
        dT == d.y                    bT == block.y
        dB == d.y + textHeight(d)    bB == block.y + textHeight(block)
        dCX == d.x + dW \div 2       bCX == block.x + bW \div 2
        dCY == d.y + textHeight(d) \div 2
        bCY == block.y + textHeight(block) \div 2
    IN  IF block.id = d.id \/ IsBlank(block.text)
        THEN [vertical |-> <<>>, horizontal |-> <<>>]
        ELSE [vertical |-> selectSeq(<< <<near(dL, bL), bL>>, <<near(dR, bR), bR>>,
                                        <<near(dCX, bCX), bCX>>, <<near(dL, bR), bR>>,
                                        <<near(dR, bL), bL>> >>),
              horizontal |-> selectSeq(<< <<near(dT, bT), bT>>, <<near(dB, bB), bB>>,
                                          <<near(dCY, bCY), bCY>>, <<near(dT, bB), bB>>,
                                          <<near(dB, bT), bT>> >>)]

RECURSIVE siblingGuides(_, _, _)
siblingGuides(d, blocks, i) ==
    IF i > Len(blocks) THEN [vertical |-> <<>>, horizontal |-> <<>>]
    ELSE LET g    == blockGuides(d, blocks[i])
             rest == siblingGuides(d, blocks, i + 1)
         IN  [vertical   |-> g.vertical \o rest.vertical,
              horizontal |-> g.horizontal \o rest.horizontal]

calculateAlignmentGuides(d, otherBlocks, canvasWidth, canvasHeight) ==
    LET dW  == getTextWidth(d.text, d.fontSize)
        sib == siblingGuides(d, otherBlocks, 1)
        W   == Px(canvasWidth)
        H   == Px(canvasHeight)
    IN  [vertical |-> sib.vertical \o
            selectSeq(<< <<Abs(d.x) <= Px(tolerance), 0>>,
                         <<near(d.x + dW, W), W>>,
                         <<near(d.x + dW \div 2, W \div 2), W \div 2>> >>),
         horizontal |-> sib.horizontal \o
            selectSeq(<< <<Abs(d.y) <= Px(tolerance), 0>>,
                         <<near(d.y + textHeight(d), H), H>>,
                         <<near(d.y + textHeight(d) \div 2, H \div 2), H \div 2>> >>)]

NoGuides == [vertical |-> <<>>, horizontal |-> <<>>]

-----------------------------------------------------------------------------
(* App: layer updates *)

\* an update that moves the updated layer to the end of the list
handleTextBlockUpdateToEnd(prev, updated) ==
    Append(SelectSeq(prev, LAMBDA tb : tb.id # updated.id), updated)

\* handleTextBlockUpdate: prev.map(tb => tb.id === updated.id ? updated : tb)
handleTextBlockUpdate(prev, updated) ==
    [i \in 1..Len(prev) |-> IF prev[i].id = updated.id THEN updated ELSE prev[i]]

\* the layer the edit panel shows: textBlocks.find(tb => tb.id === selectedTextBlockId)
selectedIndex == findIndex(textBlocks, selectedTextBlockId)

-----------------------------------------------------------------------------
(* VisualCanvas: drag state machine *)

NoEvent == [kind |-> "none", x |-> 0, y |-> 0, id |-> "null", w |-> 0, h |-> 0]

Event(kind, x, y, id, w, h) ==
    [kind |-> kind, x |-> x, y |-> y, id |-> id, w |-> w, h |-> h]

canvasWidth  == activeCanvasSize(canvasSizeId).width
canvasHeight == activeCanvasSize(canvasSizeId).height

\* no setAnimationFrameId is waiting for a render
NoUpdate == 0 - 1

\* the animationFrameId of the next render: the value last handed to
\* setAnimationFrameId since the render before, if there is one
nextFrameId(queued) == IF queued = NoUpdate THEN animationFrameId ELSE queued

\* the document listeners exist while isDragging; a render in which one of the
\* dependencies of the listener effect changed registers fresh closures, which
\* capture the animationFrameId of that render
registeredFrameId(dragging, depsChanged, frameId, captured) ==
    IF ~dragging THEN 0
    ELSE IF depsChanged THEN frameId
    ELSE captured

\* requestAnimationFrame handle: a positive id no pending callback, state or
\* closure still refers to
freshFrameId ==
    CHOOSE n \in 1..(Cardinality(frames) + 4) :
        /\ n \notin {f.id : f \in frames}
        /\ n # animationFrameId
        /\ n # listenerFrameId
        /\ n # pendingFrameId
        /\ \A m \in 1..(n - 1) :
              \/ m \in {f.id : f \in frames}
              \/ m \in {animationFrameId, listenerFrameId, pendingFrameId}

\* cancelAnimationFrame(id)
cancelAnimationFrame(pending, id) == {f \in pending : f.id # id}

\* the cleanup of the [animationFrameId] effect, which a render that changes
\* animationFrameId to id runs: it cancels the frame of the render before
frameCleanup(pending, id) ==
    IF id # animationFrameId THEN cancelAnimationFrame(pending, animationFrameId)
    ELSE pending

\* the border box of the overlay drawn over a non-blank layer, in client pixels:
\* left / top / width / height in per cent of the canvas, minWidth and minHeight 20px
overlayRect(tb, sizeId) ==
    LET rect == getCanvasRect(sizeId)
        size == canvasSizes[sizeId]
        textWidth == getTextWidth(tb.text, tb.fontSize)
        left == rect.left + (tb.x * rect.width) \div Px(size.width)
        top  == rect.top + (tb.y * rect.height) \div Px(size.height)
    IN  [left |-> left, top |-> top,
         right  |-> left + Max(20, (Max(Px(100), textWidth) * rect.width)
                                       \div Px(size.width)),
         bottom |-> top + Max(20, (Px(tb.fontSize) * rect.height)
                                      \div Px(size.height))]

\* the centre of the resize dot of layer tb: a disc of 16px (w-4 h-4 rounded-full)
\* placed right: -8px, bottom: -8px of the overlay's padding box (2px border) and
\* translated by half its size
dotClientPosition(tb, sizeId) ==
    [x |-> overlayRect(tb, sizeId).right + 6,
     y |-> overlayRect(tb, sizeId).bottom + 6]

\* is the client point on the resize dot, which lies over the canvas?  The dot is
\* drawn for the selected layer when it is not blank
onResizeDot(clientX, clientY) ==
    LET i == findIndex(textBlocks, selectedTextBlockId)
        c == dotClientPosition(textBlocks[i], canvasSizeId)
    IN  /\ i # 0
        /\ ~IsBlank(textBlocks[i].text)
        /\ (clientX - c.x) * (clientX - c.x) + (clientY - c.y) * (clientY - c.y) <= 64

\* handleMouseDown without onTextBlockClick(textBlock.id)
handleMouseDownWithoutSelect(clientX, clientY) ==
    LET coords == getCanvasCoordinates(clientX, clientY, canvasWidth, canvasHeight,
                                       getCanvasRect(canvasSizeId))
        clickedResult == findTextBlockAtPosition(textBlocks, coords.x, coords.y)
        tb == textBlocks[clickedResult.index]
    IN  /\ ~onResizeDot(clientX, clientY)
        /\ lastEvent' = Event("down", coords.x, coords.y,
                              IF clickedResult.hit THEN tb.id ELSE "null",
                              canvasWidth, canvasHeight)
        /\ IF clickedResult.hit
           THEN /\ isDragging' = TRUE
                /\ draggedTextBlockId' = tb.id
                /\ dragMode' = clickedResult.mode
                /\ IF clickedResult.mode = "resize"
                   THEN /\ initialFontSize' = tb.fontSize
                        /\ dragOffset' =
                             [x |-> coords.x - (tb.x + Len(tb.text) * tb.fontSize * 8),
                              y |-> coords.y - (tb.y + Px(tb.fontSize))]
                   ELSE /\ initialFontSize' = initialFontSize
                        /\ dragOffset' = [x |-> coords.x - tb.x, y |-> coords.y - tb.y]
                /\ listenerFrameId' =
                     registeredFrameId(TRUE, TRUE, animationFrameId, listenerFrameId)
           ELSE UNCHANGED <<isDragging, draggedTextBlockId, dragMode,
                            initialFontSize, dragOffset, listenerFrameId>>
        /\ UNCHANGED <<canvasSizeId, backgroundImage, textBlocks, animationFrameId,
                       alignmentGuides, frames, selectedTextBlockId, pendingFrameId>>

\* handleMouseDown (canvas onMouseDown): the canvas receives the pointer-downs the
\* resize dot does not cover
handleMouseDown(clientX, clientY) ==
    LET coords == getCanvasCoordinates(clientX, clientY, canvasWidth, canvasHeight,
                                       getCanvasRect(canvasSizeId))
        clickedResult == findTextBlockAtPosition(textBlocks, coords.x, coords.y)
        tb == textBlocks[clickedResult.index]
    IN  /\ ~onResizeDot(clientX, clientY)
        /\ lastEvent' = Event("down", coords.x, coords.y,
                              IF clickedResult.hit THEN tb.id ELSE "null",
                              canvasWidth, canvasHeight)
        /\ IF clickedResult.hit
           THEN /\ isDragging' = TRUE
                /\ draggedTextBlockId' = tb.id
                /\ dragMode' = clickedResult.mode
                /\ selectedTextBlockId' = tb.id
                /\ IF clickedResult.mode = "resize"
                   THEN /\ initialFontSize' = tb.fontSize
                        /\ dragOffset' =
                             [x |-> coords.x - (tb.x + Len(tb.text) * tb.fontSize * 8),
                              y |-> coords.y - (tb.y + Px(tb.fontSize))]
                   ELSE /\ initialFontSize' = initialFontSize
                        /\ dragOffset' = [x |-> coords.x - tb.x, y |-> coords.y - tb.y]
                \* the render applies a waiting setAnimationFrameId
                /\ animationFrameId' = nextFrameId(pendingFrameId)
                /\ frames' = frameCleanup(frames, animationFrameId')
                /\ pendingFrameId' = NoUpdate
                /\ listenerFrameId' =
                     registeredFrameId(TRUE, TRUE, animationFrameId', listenerFrameId)
           ELSE UNCHANGED <<isDragging, draggedTextBlockId, dragMode, selectedTextBlockId,
                            initialFontSize, dragOffset, listenerFrameId,
                            animationFrameId, frames, pendingFrameId>>
        /\ UNCHANGED <<canvasSizeId, backgroundImage, textBlocks, alignmentGuides>>

\* onMouseDown of the resize dot drawn on the selected layer's overlay
handleDotMouseDown ==
    LET i  == selectedIndex
        tb == textBlocks[i]
        e  == dotClientPosition(tb, canvasSizeId)
        coords == getCanvasCoordinates(e.x, e.y, canvasWidth, canvasHeight,
                                       getCanvasRect(canvasSizeId))
        textWidth == getTextWidth(tb.text, tb.fontSize)
    IN  /\ i # 0
        /\ ~IsBlank(tb.text)                 \* blank layers have no overlay
        /\ isDragging' = TRUE
        /\ draggedTextBlockId' = tb.id
        /\ dragMode' = "resize"
        /\ initialFontSize' = tb.fontSize
        /\ selectedTextBlockId' = tb.id
        /\ dragOffset' = [x |-> coords.x - (tb.x + textWidth),
                          y |-> coords.y - (tb.y + Px(tb.fontSize))]
        /\ animationFrameId' = nextFrameId(pendingFrameId)
        /\ frames' = frameCleanup(frames, animationFrameId')
        /\ pendingFrameId' = NoUpdate
        /\ listenerFrameId' =
             registeredFrameId(TRUE, TRUE, animationFrameId', listenerFrameId)
        /\ lastEvent' = Event("dot", coords.x, coords.y, tb.id, canvasWidth, canvasHeight)
        /\ UNCHANGED <<canvasSizeId, backgroundImage, textBlocks, alignmentGuides>>

\* handleMouseMove (document listener): schedules the frame callback
handleMouseMove(clientX, clientY) ==
    /\ isDragging /\ draggedTextBlockId # "null"
    /\ LET frameId == freshFrameId
           callback == [id |-> frameId, clientX |-> clientX, clientY |-> clientY,
                        blocks |-> textBlocks, dragged |-> draggedTextBlockId,
                        mode |-> dragMode, offset |-> dragOffset,
                        initialFontSize |-> initialFontSize,
                        canvasWidth |-> canvasWidth, canvasHeight |-> canvasHeight]
           \* the handler cancels the frame its closure knows; the cleanup of the
           \* [animationFrameId] effect cancels the frame of the previous render
           kept == cancelAnimationFrame(
                       cancelAnimationFrame(frames, listenerFrameId), animationFrameId)
       IN  /\ frames' = kept \cup {callback}
           /\ animationFrameId' = frameId
           /\ pendingFrameId' = NoUpdate
    /\ listenerFrameId' = registeredFrameId(TRUE, FALSE, animationFrameId', listenerFrameId)
    /\ lastEvent' = Event("move", clientX, clientY, draggedTextBlockId,
                          canvasWidth, canvasHeight)
    /\ UNCHANGED <<appVars, isDragging, dragOffset, draggedTextBlockId, dragMode,
                   initialFontSize, alignmentGuides>>

\* handleMouseMove up to its return: the frame is requested and
\* setAnimationFrameId(frameId) waits for the render React schedules; only the frame
\* the closure knows is cancelled
mouseMoveListener(clientX, clientY) ==
    /\ isDragging /\ draggedTextBlockId # "null"
    /\ LET frameId == freshFrameId
           callback == [id |-> frameId, clientX |-> clientX, clientY |-> clientY,
                        blocks |-> textBlocks, dragged |-> draggedTextBlockId,
                        mode |-> dragMode, offset |-> dragOffset,
                        initialFontSize |-> initialFontSize,
                        canvasWidth |-> canvasWidth, canvasHeight |-> canvasHeight]
       IN  /\ frames' = cancelAnimationFrame(frames, listenerFrameId) \cup {callback}
           /\ pendingFrameId' = frameId
    /\ lastEvent' = Event("move", clientX, clientY, draggedTextBlockId,
                          canvasWidth, canvasHeight)
    /\ UNCHANGED <<appVars, isDragging, dragOffset, draggedTextBlockId, dragMode,
                   initialFontSize, alignmentGuides, animationFrameId, listenerFrameId>>

\* the render of VisualCanvas for setAnimationFrameId: animationFrameId is not a
\* dependency of the listener effect, so the listeners keep their closures; the
\* [animationFrameId] effect runs its cleanup
animationFrameIdRendered ==
    /\ pendingFrameId # NoUpdate
    /\ animationFrameId' = pendingFrameId
    /\ frames' = frameCleanup(frames, pendingFrameId)
    /\ pendingFrameId' = NoUpdate
    /\ listenerFrameId' = registeredFrameId(isDragging, FALSE, pendingFrameId,
                                            listenerFrameId)
    /\ UNCHANGED <<appVars, isDragging, dragOffset, draggedTextBlockId, dragMode,
                   initialFontSize, alignmentGuides, lastEvent>>

\* does sqrt(d2) / 10 * 0.2 round (half up) to k or more?
roundsTo(k, d2) == k = 0 \/ 625 * (2 * k - 1) * (2 * k - 1) <= d2

\* the largest k in lo..hi with roundsTo(k, d2), by bisection
RECURSIVE largestRounded(_, _, _)
largestRounded(lo, hi, d2) ==
    IF lo >= hi THEN lo
    ELSE LET mid == (lo + hi + 1) \div 2
         IN  IF roundsTo(mid, d2) THEN largestRounded(mid, hi, d2)
             ELSE largestRounded(lo, mid - 1, d2)

\* Math.round(sqrt(d2) / 10 * 0.2) for a squared distance d2 in coordinate units
roundedGrowth(d2) == largestRounded(0, 500, d2)

\* a resize whose growth has the sign of the pointer's displacement from the corner
resizeFontSizeSigned(init, deltaX, deltaY) ==
    LET growth == IF Abs(deltaX) >= 25000 \/ Abs(deltaY) >= 25000 THEN 500
                  ELSE roundedGrowth(deltaX * deltaX + deltaY * deltaY)
    IN  Max(10, Min(500, IF deltaX < 0 \/ deltaY < 0 THEN init - growth
                         ELSE init + growth))

\* the resize computation without Math.max(10, Math.min(500, ...))
resizeFontSizeUnclamped(init, deltaX, deltaY) ==
    IF Abs(deltaX) >= 25000 \/ Abs(deltaY) >= 25000
    THEN init + 500
    ELSE init + roundedGrowth(deltaX * deltaX + deltaY * deltaY)

\* Math.round(Math.max(10, Math.min(500, initialFontSize + delta * 0.2))),
\* delta = sqrt(deltaX^2 + deltaY^2) in pixels; font sizes are >= 0
resizeFontSize(init, deltaX, deltaY) ==
    IF init >= 500 \/ Abs(deltaX) >= 25000 \/ Abs(deltaY) >= 25000
    THEN 500
    ELSE LET d2 == deltaX * deltaX + deltaY * deltaY
         IN  IF d2 >= 2500 * (500 - init) * (500 - init) THEN 500
             ELSE IF init < 10 /\ d2 < 2500 * (10 - init) * (10 - init) THEN 10
             ELSE init + roundedGrowth(d2)

\* the clamp without its lower bound: Math.min(newPos, canvasExtent - textExtent)
constrainNoFloor(newPos, canvasExtent, textExtent) ==
    Min(newPos, canvasExtent - textExtent)

\* Math.max(0, Math.min(newPos, canvasExtent - textExtent))
constrain(newPos, canvasExtent, textExtent) ==
    Max(0, Min(newPos, canvasExtent - textExtent))

\* the layer the frame callback hands to onTextBlockUpdate in resize mode
resizedBlock(f, textBlock, coords) ==
    LET textWidth == getTextWidth(textBlock.text, textBlock.fontSize)
        deltaX == coords.x - (textBlock.x + textWidth)
        deltaY == coords.y - (textBlock.y + textHeight(textBlock))
    IN  [textBlock EXCEPT !.fontSize = resizeFontSize(f.initialFontSize, deltaX, deltaY)]

\* the move branch snapping the layer onto the canvas's left edge when the guide
\* for that edge matches
movedBlockSnapping(f, textBlock, coords) ==
    LET newX == coords.x - f.offset.x
        newY == coords.y - f.offset.y
        textWidth == getTextWidth(textBlock.text, textBlock.fontSize)
        constrainedX == constrain(newX, Px(f.canvasWidth), textWidth)
    IN  [textBlock EXCEPT
            !.x = IF Abs(constrainedX) <= Px(tolerance) THEN 0 ELSE constrainedX,
            !.y = constrain(newY, Px(f.canvasHeight), textHeight(textBlock))]

\* the layer the frame callback hands to onTextBlockUpdate in move mode
movedBlock(f, textBlock, coords) ==
    LET newX == coords.x - f.offset.x
        newY == coords.y - f.offset.y
        textWidth == getTextWidth(textBlock.text, textBlock.fontSize)
    IN  [textBlock EXCEPT
            !.x = constrain(newX, Px(f.canvasWidth), textWidth),
            !.y = constrain(newY, Px(f.canvasHeight), textHeight(textBlock))]

\* the callback handed to requestAnimationFrame by handleMouseMove
frameCallback(f) ==
    LET coords == getCanvasCoordinates(f.clientX, f.clientY, f.canvasWidth,
                                       f.canvasHeight, getCanvasRect(canvasSizeId))
        i == findIndex(f.blocks, f.dragged)
        textBlock == f.blocks[i]
        updated == IF f.mode = "resize" THEN resizedBlock(f, textBlock, coords)
                   ELSE movedBlock(f, textBlock, coords)
    IN  /\ f \in frames
        /\ IF i = 0
           THEN /\ frames' = frames \ {f}
                /\ UNCHANGED <<textBlocks, alignmentGuides, listenerFrameId, lastEvent,
                               animationFrameId, pendingFrameId>>
           ELSE /\ textBlocks' = handleTextBlockUpdate(textBlocks, updated)
                \* the render applies a waiting setAnimationFrameId
                /\ animationFrameId' = nextFrameId(pendingFrameId)
                /\ frames' = frameCleanup(frames \ {f}, animationFrameId')
                /\ pendingFrameId' = NoUpdate
                /\ alignmentGuides' =
                     IF f.mode = "resize" THEN alignmentGuides
                     ELSE calculateAlignmentGuides(updated, f.blocks,
                                                   f.canvasWidth, f.canvasHeight)
                /\ listenerFrameId' = registeredFrameId(isDragging, TRUE,
                                                        animationFrameId', listenerFrameId)
                /\ lastEvent' = Event(IF f.mode = "resize" THEN "resized" ELSE "moved",
                                      coords.x, coords.y, updated.id,
                                      f.canvasWidth, f.canvasHeight)
        /\ UNCHANGED <<canvasSizeId, backgroundImage, selectedTextBlockId, isDragging,
                       dragOffset, draggedTextBlockId, dragMode, initialFontSize>>

\* handleMouseUp without setDragMode('move')
handleMouseUpKeepingMode ==
    /\ isDragging
    /\ IF listenerFrameId # 0
       THEN /\ frames' = cancelAnimationFrame(
                             cancelAnimationFrame(frames, listenerFrameId), animationFrameId)
            /\ animationFrameId' = 0
       ELSE UNCHANGED <<frames, animationFrameId>>
    /\ UNCHANGED pendingFrameId
    /\ isDragging' = FALSE
    /\ draggedTextBlockId' = "null"
    /\ dragMode' = dragMode
    /\ initialFontSize' = 0
    /\ dragOffset' = [x |-> 0, y |-> 0]
    /\ alignmentGuides' = NoGuides
    /\ listenerFrameId' = registeredFrameId(FALSE, TRUE, animationFrameId', listenerFrameId)
    /\ lastEvent' = Event("up", 0, 0, draggedTextBlockId, canvasWidth, canvasHeight)
    /\ UNCHANGED appVars

\* handleMouseUp aborting the drag: the layers go back to where they were seeded
handleMouseUpReverting ==
    /\ isDragging
    /\ IF listenerFrameId # 0
       THEN /\ frames' = cancelAnimationFrame(
                             cancelAnimationFrame(frames, listenerFrameId), animationFrameId)
            /\ animationFrameId' = 0
       ELSE UNCHANGED <<frames, animationFrameId>>
    /\ UNCHANGED pendingFrameId
    /\ isDragging' = FALSE
    /\ draggedTextBlockId' = "null"
    /\ dragMode' = "move"
    /\ initialFontSize' = 0
    /\ dragOffset' = [x |-> 0, y |-> 0]
    /\ alignmentGuides' = NoGuides
    /\ listenerFrameId' = registeredFrameId(FALSE, TRUE, animationFrameId', listenerFrameId)
    /\ lastEvent' = Event("up", 0, 0, draggedTextBlockId, canvasWidth, canvasHeight)
    /\ textBlocks' = initialTextBlocks(activeCanvasSize(canvasSizeId))
    /\ UNCHANGED <<canvasSizeId, backgroundImage, selectedTextBlockId>>

\* handleMouseUp (document listener)
handleMouseUp ==
    /\ isDragging
    \* if (animationFrameId) { cancelAnimationFrame(animationFrameId);
    \* setAnimationFrameId(null) }, with the animationFrameId of the closure; then
    \* the render, which applies the last setAnimationFrameId
    /\ animationFrameId' = IF listenerFrameId # 0 THEN 0 ELSE nextFrameId(pendingFrameId)
    /\ frames' = frameCleanup(cancelAnimationFrame(frames, listenerFrameId),
                              animationFrameId')
    /\ pendingFrameId' = NoUpdate
    /\ isDragging' = FALSE
    /\ draggedTextBlockId' = "null"
    /\ dragMode' = "move"
    /\ initialFontSize' = 0
    /\ dragOffset' = [x |-> 0, y |-> 0]
    /\ alignmentGuides' = NoGuides
    /\ listenerFrameId' = registeredFrameId(FALSE, TRUE, animationFrameId', listenerFrameId)
    /\ lastEvent' = Event("up", 0, 0, draggedTextBlockId, canvasWidth, canvasHeight)
    /\ UNCHANGED appVars

-----------------------------------------------------------------------------
(* App: edit panel and toolbar (the parts that change the composition state) *)

\* what the panel's inputs hand to onUpdate / what the toolbar sets
TextEntries     == { <<" ", " ">>, [i \in 1..30 |-> "a"] }    \* maxLength={30}
FontSizeEntries == { 0, 501 }               \* Number(e.target.value); 0 for an empty field
FontSizePresets == { 120, 60, 400 }

\* onChange of the text input: onUpdate({ ...textBlock, text })
editText(t) ==
    /\ selectedIndex # 0
    /\ textBlocks' = handleTextBlockUpdate(textBlocks,
                        [textBlocks[selectedIndex] EXCEPT !.text = t])
    /\ lastEvent' = Event("text", 0, 0, selectedTextBlockId, canvasWidth, canvasHeight)
    /\ UNCHANGED <<canvasSizeId, backgroundImage, selectedTextBlockId>>

\* onChange of the number input: onUpdate({ ...textBlock, fontSize: Number(value) })
editFontSize(n) ==
    /\ selectedIndex # 0
    /\ textBlocks' = handleTextBlockUpdate(textBlocks,
                        [textBlocks[selectedIndex] EXCEPT !.fontSize = n])
    /\ lastEvent' = Event("fontSize", 0, 0, selectedTextBlockId, canvasWidth, canvasHeight)
    /\ UNCHANGED <<canvasSizeId, backgroundImage, selectedTextBlockId>>

\* the three preset-size buttons: onUpdate({ ...textBlock, fontSize: 120 | 60 | 400 })
presetFontSize(n) ==
    /\ selectedIndex # 0
    /\ textBlocks' = handleTextBlockUpdate(textBlocks,
                        [textBlocks[selectedIndex] EXCEPT !.fontSize = n])
    /\ lastEvent' = Event("preset", 0, 0, selectedTextBlockId, canvasWidth, canvasHeight)
    /\ UNCHANGED <<canvasSizeId, backgroundImage, selectedTextBlockId>>

\* the layer buttons: setSelectedTextBlockId(textBlock.id)
selectTextBlock(id) ==
    /\ id # selectedTextBlockId
    /\ selectedTextBlockId' = id
    /\ lastEvent' = Event("select", 0, 0, id, canvasWidth, canvasHeight)
    /\ UNCHANGED <<canvasSizeId, backgroundImage, textBlocks>>

\* the canvas size buttons: setCanvasSizeId(size.id)
setCanvasSizeId(id) ==
    /\ id # canvasSizeId
    /\ canvasSizeId' = id
    /\ lastEvent' = Event("canvasSize", 0, 0, "null", canvasSizes[id].width,
                          canvasSizes[id].height)
    /\ UNCHANGED <<backgroundImage, textBlocks, selectedTextBlockId>>

\* an App render hands VisualCanvas a new onTextBlockUpdate, so the listener effect
\* runs again
appRendered ==
    /\ animationFrameId' = nextFrameId(pendingFrameId)
    /\ frames' = frameCleanup(frames, animationFrameId')
    /\ pendingFrameId' = NoUpdate
    /\ listenerFrameId' = registeredFrameId(isDragging, TRUE, animationFrameId',
                                            listenerFrameId)
    /\ UNCHANGED <<isDragging, dragOffset, draggedTextBlockId, dragMode, initialFontSize,
                   alignmentGuides>>

-----------------------------------------------------------------------------
(* App: export render pipeline (updateImage, renderComposition) *)

Images == {"imgA", "imgB"}

\* canvas.toDataURL('image/png'): the encoding of what the render drew
dataUrl(r) ==
    [background |-> IF r.backgroundImage # "null" /\ r.outcome = "load"
                    THEN r.backgroundImage ELSE "null",
     textBlocks |-> r.textBlocks, width |-> r.width, height |-> r.height]

\* what the image of a render's background does: fire onload, fire onerror, or neither
loadOutcomes(bg) == IF bg = "null" THEN {"none"} ELSE {"load", "error", "never"}

\* renderComposition(backgroundImage, textBlocks, width, height): the promise it
\* returns.  Without a background drawAllText runs inside the executor, so the
\* promise is settled when it is returned; with one it stays pending until the
\* image's onload / onerror runs drawAllText
renderComposition(renderId, bg, blocks, size, outcome) ==
    [renderId |-> renderId, backgroundImage |-> bg, textBlocks |-> blocks,
     width |-> size.width, height |-> size.height, outcome |-> outcome]

\* updateImage without its guard: every resolved render is written
isLatestRenderUnguarded(renderId, current) == TRUE

\* updateImage writing in issue order: a render waits for the renders before it
isLatestRenderInOrder(renderId, current) ==
    /\ renderId = current
    /\ \A i \in 1..Len(renders) : renders[i].renderId >= renderId

\* if (renderId === renderRef.current)
isLatestRender(renderId, current) == renderId = current

\* updateImage, run by the effect on [backgroundImage, textBlocks, activeCanvasSize]
\* with the state of the render that runs the effect:
\*   const renderId = ++renderRef.current; const dataUrl = await renderComposition(...)
\* a promise that is already settled continues in the same task
updateImage(outcome) ==
    LET r == renderComposition(renderRef + 1, backgroundImage', textBlocks',
                               activeCanvasSize(canvasSizeId'), outcome)
    IN  /\ renderRef' = renderRef + 1
        /\ IF outcome = "none"
           THEN /\ renders' = renders
                /\ outputImage' = IF isLatestRender(r.renderId, renderRef')
                                  THEN dataUrl(r) ELSE outputImage
           ELSE /\ renders' = Append(renders, r)
                /\ outputImage' = outputImage

\* updateImage after its await: the i-th pending promise resolves
updateImageResolved(i) ==
    /\ i \in 1..Len(renders)
    /\ renders[i].outcome # "never"
    /\ renders' = removeAt(renders, i)
    /\ IF isLatestRender(renders[i].renderId, renderRef)
       THEN /\ outputImage' = dataUrl(renders[i])
            /\ lastEvent' = Event("rendered", 0, 0, "null", renders[i].renderId, 0)
       ELSE /\ outputImage' = outputImage
            /\ lastEvent' = Event("discarded", 0, 0, "null", renders[i].renderId, 0)
    /\ UNCHANGED renderRef

\* the effect on [updateImage]: a render in which backgroundImage, textBlocks or the
\* canvas size is a new value calls updateImage
updateImageEffect == \E o \in loadOutcomes(backgroundImage') : updateImage(o)

-----------------------------------------------------------------------------
(* VisualCanvas: background image cache *)

\* the effect on [backgroundImage]
backgroundImageEffect ==
    IF backgroundImage' # "null"
    THEN /\ imageLoads' = Append(imageLoads, backgroundImage')    \* new Image(); img.src = ...
         /\ UNCHANGED <<backgroundImageRef, backgroundImageLoadedRef>>
    ELSE /\ backgroundImageRef' = "null"
         /\ backgroundImageLoadedRef' = TRUE
         /\ UNCHANGED imageLoads

\* img.onload of the i-th pending Image
imageOnload(i) ==
    /\ i \in 1..Len(imageLoads)
    /\ backgroundImageRef' = imageLoads[i]
    /\ backgroundImageLoadedRef' = TRUE
    /\ imageLoads' = removeAt(imageLoads, i)
    /\ lastEvent' = Event("onload", 0, 0, imageLoads[i], 0, 0)

\* the i-th pending Image fails to load: no handler is attached
imageFailed(i) ==
    /\ i \in 1..Len(imageLoads)
    /\ imageLoads' = removeAt(imageLoads, i)
    /\ lastEvent' = Event("onerror", 0, 0, imageLoads[i], 0, 0)
    /\ UNCHANGED <<backgroundImageRef, backgroundImageLoadedRef>>

\* what drawCanvas paints behind the text
paintedBackground ==
    IF backgroundImageRef # "null" /\ backgroundImageLoadedRef
    THEN backgroundImageRef ELSE "null"

\* the guide lines drawCanvas strokes: if (isDragging && alignmentGuides)
drawnGuides == IF isDragging THEN alignmentGuides ELSE NoGuides

\* reader.onload of handleImageUpload: setBackgroundImage(dataUrl)
handleImageUpload(b) ==
    /\ b # backgroundImage
    /\ backgroundImage' = b
    /\ lastEvent' = Event("upload", 0, 0, b, 0, 0)
    /\ UNCHANGED <<canvasSizeId, textBlocks, selectedTextBlockId>>

\* handleClearImage: setBackgroundImage(null)
handleClearImage ==
    /\ backgroundImage # "null"
    /\ backgroundImage' = "null"
    /\ lastEvent' = Event("clearImage", 0, 0, "null", 0, 0)
    /\ UNCHANGED <<canvasSizeId, textBlocks, selectedTextBlockId>>

-----------------------------------------------------------------------------
(* App and panel: effect toggles, clear-all, inspiration and presets *)

\* the UTF-16 code units of the ids of the effect catalog
codeUnits(id) ==
    CASE id = "none"    -> <<110, 111, 110, 101>>
      [] id = "bold"    -> <<98, 111, 108, 100>>
      [] id = "shadow"  -> <<115, 104, 97, 100, 111, 119>>
      [] id = "neon"    -> <<110, 101, 111, 110>>
      [] id = "outline" -> <<111, 117, 116, 108, 105, 110, 101>>
      [] id = "faux-3d" -> <<102, 97, 117, 120, 45, 51, 100>>
      [] id = "glitch"  -> <<103, 108, 105, 116, 99, 104>>

\* the comparison of Array.prototype.sort() without a comparator: a sorts before b
\* when a's code units come first, and a prefix before the longer string
sortsBefore(a, b) ==
    LET ua == codeUnits(a)
        ub == codeUnits(b)
    IN  \E i \in 1..Len(ub) :
            /\ \A j \in 1..(i - 1) : j <= Len(ua) /\ ua[j] = ub[j]
            /\ (i > Len(ua) \/ ua[i] < ub[i])

\* a sort that leaves the array in the order of insertion
sortInInsertionOrder(arr) == arr

\* Array.prototype.sort(): stable, ascending
RECURSIVE sort(_)
sort(arr) ==
    IF arr = <<>> THEN <<>>
    ELSE LET front == sort(SubSeq(arr, 1, Len(arr) - 1))
             e     == arr[Len(arr)]
             k     == Cardinality({ i \in 1..Len(front) : ~sortsBefore(e, front[i]) })
         IN  SubSeq(front, 1, k) \o <<e>> \o SubSeq(front, k + 1, Len(front))

\* Set.prototype.has on the values of a Set, kept in insertion order
setHas(s, e) == \E i \in 1..Len(s) : s[i] = e

\* Set.prototype.add
setAdd(s, e) == IF setHas(s, e) THEN s ELSE Append(s, e)

\* Set.prototype.delete
setDelete(s, e) == SelectSeq(s, LAMBDA v : v # e)

\* new Set(array): the values in the order of their first occurrence
RECURSIVE newSet(_)
newSet(arr) ==
    IF arr = <<>> THEN <<>>
    ELSE setAdd(newSet(SubSeq(arr, 1, Len(arr) - 1)), arr[Len(arr)])

\* handleEffectToggle: the effect list the handler hands on
\*   if (effectId === 'none') return [];
\*   const s = new Set(effectIds); s.has(id) ? s.delete(id) : s.add(id);
\*   return Array.from(s).sort();
handleEffectToggle(effectIds, toggledEffectId) ==
    IF toggledEffectId = "none" THEN <<>>
    ELSE LET newEffectIds == newSet(effectIds)
         IN  sort(IF setHas(newEffectIds, toggledEffectId)
                  THEN setDelete(newEffectIds, toggledEffectId)
                  ELSE setAdd(newEffectIds, toggledEffectId))

\* an effect button of the panel: onUpdate({ ...textBlock, effectIds })
toggleEffect(effectId) ==
    /\ selectedIndex # 0
    /\ textBlocks' = handleTextBlockUpdate(textBlocks,
                        [textBlocks[selectedIndex] EXCEPT
                            !.effectIds = handleEffectToggle(@, effectId)])
    /\ lastEvent' = Event("effect", 0, 0, selectedTextBlockId, canvasWidth, canvasHeight)
    /\ UNCHANGED <<canvasSizeId, backgroundImage, selectedTextBlockId>>

\* isPristine, which disables the clear button.  Every handler builds its layers by
\* spreading a layer of the list, so the keys of all layers are in one order and
\* the two JSON texts are equal exactly when the lists are
isPristine ==
    /\ textBlocks = initialTextBlocks(activeCanvasSize(canvasSizeId))
    /\ backgroundImage = "null"
    /\ canvasSizeId = "square"

\* handleClear.  initialTextBlocks is the constant of the render the handler was
\* created in, computed from the canvas size of that render
handleClear ==
    /\ textBlocks' = initialTextBlocks(activeCanvasSize(canvasSizeId))
    /\ backgroundImage' = "null"
    /\ canvasSizeId' = "square"
    /\ selectedTextBlockId' = "main"
    /\ lastEvent' = Event("clear", 0, 0, "null", canvasWidth, canvasHeight)

\* what Math.random gives handleInspiration: a font, the effects sampled in the order
\* they were drawn, and for each layer a phrase (of four characters) and two colours
InspirationDraws ==
    { [fontId |-> "rampart-one", effectIds |-> <<"outline", "bold">>,
       layers |-> [i \in 1..3 |-> [phrase |-> <<"l", "g", "y", "x">>,
                                   color1 |-> "#1A2B3C", color2 |-> "#FFFFFF"]]],
      [fontId |-> "hina-mincho", effectIds |-> <<"neon", "glitch", "faux-3d">>,
       layers |-> << [phrase |-> <<"c", "y", "w", "x">>,
                      color1 |-> "#000000", color2 |-> "#ABCDEF"],
                     [phrase |-> <<"s", "j", "z", "m">>,
                      color1 |-> "#123456", color2 |-> "#000000"],
                     [phrase |-> <<"n", "h", "s", "j">>,
                      color1 |-> "#FEDCBA", color2 |-> "#654321"] >>] }

\* handleInspiration: every layer gets the font and the sorted effects, two random
\* colours, and a phrase if its text is blank; the font size is kept
handleInspiration(randomFontId, randomEffectIds, random) ==
    /\ textBlocks' =
          [i \in 1..Len(textBlocks) |->
              [textBlocks[i] EXCEPT
                  !.text      = IF IsBlank(@) THEN random[i].phrase ELSE @,
                  !.fontId    = randomFontId,
                  !.effectIds = sort(randomEffectIds),
                  !.color1    = random[i].color1,
                  !.color2    = random[i].color2,
                  !.fontSize  = textBlocks[i].fontSize]]
    /\ lastEvent' = Event("inspiration", 0, 0, "null", canvasWidth, canvasHeight)
    /\ UNCHANGED <<canvasSizeId, backgroundImage, selectedTextBlockId>>

\* PresetManager before anything was saved: no presets, nothing stored
NoPresets == [state |-> <<>>, storage |-> "null"]

\* JSON.stringify of the preset list: the values of a preset are strings, finite
\* numbers, null and arrays and objects of them, which JSON.parse gives back
stringify(list) == [json |-> list]

\* handleSavePreset with the name typed into the dialog and the clock's reading
handleSavePreset(presetName, now) ==
    LET newPreset == [id |-> now, name |-> presetName, createdAt |-> now,
                      canvasSizeId |-> canvasSizeId,
                      backgroundImage |-> backgroundImage,
                      textBlocks |-> textBlocks,
                      selectedTextBlockId |-> selectedTextBlockId]
        updatedPresets == Append(presets.state, newPreset)
    IN  /\ presetName # ""                         \* if (!presetName.trim()) return
        /\ presets' = [state |-> updatedPresets, storage |-> stringify(updatedPresets)]
        /\ lastEvent' = Event("save", 0, 0, "null", canvasWidth, canvasHeight)
        /\ UNCHANGED appVars

\* a load that leaves the selection as it is
handleLoadPresetKeepingSelection(preset) ==
    /\ canvasSizeId' = preset.canvasSizeId
    /\ backgroundImage' = preset.backgroundImage
    /\ textBlocks' = preset.textBlocks
    /\ selectedTextBlockId' = selectedTextBlockId
    /\ lastEvent' = Event("load", 0, 0, "null", canvasSizes[preset.canvasSizeId].width,
                          canvasSizes[preset.canvasSizeId].height)
    /\ UNCHANGED presets

\* handleLoadPreset(preset), from a button of the load dialog
handleLoadPreset(preset) ==
    /\ canvasSizeId' = preset.canvasSizeId
    /\ backgroundImage' = preset.backgroundImage
    /\ textBlocks' = preset.textBlocks
    /\ selectedTextBlockId' = preset.selectedTextBlockId
    /\ lastEvent' = Event("load", 0, 0, "null", canvasSizes[preset.canvasSizeId].width,
                          canvasSizes[preset.canvasSizeId].height)
    /\ UNCHANGED presets

-----------------------------------------------------------------------------
(* Drawing: the 2D context and the draw operations issued on it *)

\* the font catalog: { id, family, weight }
fonts ==
    << [id |-> "noto-sans-tc-900",      family |-> "Noto Sans TC",        weight |-> "900"],
       [id |-> "taipei-sans-700",       family |-> "Taipei Sans TC Beta", weight |-> "700"],
       [id |-> "noto-sans-tc-500",      family |-> "Noto Sans TC",        weight |-> "500"],
       [id |-> "m-plus-rounded-1c-700", family |-> "M PLUS Rounded 1c",   weight |-> "700"],
       [id |-> "hina-mincho",           family |-> "Hina Mincho",         weight |-> "400"],
       [id |-> "jason-handwriting-1",   family |-> "Jason Handwriting 1", weight |-> "400"],
       [id |-> "jason-handwriting-2",   family |-> "Jason Handwriting 2", weight |-> "400"],
       [id |-> "rocknroll-one",         family |-> "RocknRoll One",       weight |-> "400"],
       [id |-> "reggae-one",            family |-> "Reggae One",          weight |-> "400"],
       [id |-> "rampart-one",           family |-> "Rampart One",         weight |-> "400"] >>

\* fonts.find(f => f.id === fontId): the index of the first match, 0 for undefined
findFont(fontId) ==
    IF \E i \in 1..Len(fonts) : fonts[i].id = fontId
    THEN CHOOSE i \in 1..Len(fonts) :
            /\ fonts[i].id = fontId
            /\ \A j \in 1..(i - 1) : fonts[j].id # fontId
    ELSE 0

\* a test of the first tag only: the outcome then depends on the order of the list
hasFirst(effectIds, e) == effectIds # <<>> /\ effectIds[1] = e

\* effects.has(e) / effectIds.includes(e)
has(effectIds, e) == \E i \in 1..Len(effectIds) : effectIds[i] = e

\* ctx.font = `${weight} ${size}px "${family}"`
fontOf(weight, size, family) == [weight |-> weight, size |-> size, family |-> family]

\* the state of a 2D context just created.  lineWidth is in hundredths of a pixel,
\* shadow blurs and offsets and the segments of the line dash in pixels
defaultCtx ==
    [font |-> fontOf("400", 10, "sans-serif"),
     textAlign |-> "start", textBaseline |-> "alphabetic",
     fillStyle |-> "#000000", strokeStyle |-> "#000000",
     lineWidth |-> 100, lineJoin |-> "miter", lineCap |-> "butt", miterLimit |-> 10,
     lineDash |-> <<>>,
     shadowColor |-> "transparent", shadowBlur |-> 0,
     shadowOffsetX |-> 0, shadowOffsetY |-> 0]

\* a canvas being drawn on: its context state, the stack of ctx.save() and the draw
\* operations issued so far
newCanvas == [ctx |-> defaultCtx, stack |-> <<>>, ops |-> <<>>]

\* a draw operation and the context state that decides what it paints; the fields an
\* operation does not read keep these values
noOp ==
    [op |-> "none", text |-> <<>>, image |-> "null",
     x |-> 0, y |-> 0, w |-> 0, h |-> 0,
     font |-> fontOf("", 0, ""), textAlign |-> "", textBaseline |-> "",
     fillStyle |-> "", strokeStyle |-> "",
     lineWidth |-> 0, lineJoin |-> "", lineCap |-> "", miterLimit |-> 0, lineDash |-> <<>>,
     shadowColor |-> "", shadowBlur |-> 0, shadowOffsetX |-> 0, shadowOffsetY |-> 0]

\* the shadow a draw operation is painted with
withShadow(op, c) ==
    [op EXCEPT !.shadowColor = c.shadowColor, !.shadowBlur = c.shadowBlur,
               !.shadowOffsetX = c.shadowOffsetX, !.shadowOffsetY = c.shadowOffsetY]

issue(s, op) == [s EXCEPT !.ops = Append(@, op)]

\* ctx.clearRect(0, 0, canvas.width, canvas.height)
clearRect(s, w, h) == issue(s, [noOp EXCEPT !.op = "clearRect", !.w = w, !.h = h])

\* ctx.drawImage(image, ..., 0, 0, canvas.width, canvas.height): the centre crop of
\* the image scaled to the whole canvas
drawImage(s, image, w, h) ==
    issue(s, withShadow([noOp EXCEPT !.op = "drawImage", !.image = image,
                                     !.w = w, !.h = h], s.ctx))

\* ctx.fillText(text, x, y)
fillText(s, text, x, y) ==
    issue(s, withShadow([noOp EXCEPT !.op = "fillText", !.text = text, !.x = x, !.y = y,
                                     !.font = s.ctx.font,
                                     !.textAlign = s.ctx.textAlign,
                                     !.textBaseline = s.ctx.textBaseline,
                                     !.fillStyle = s.ctx.fillStyle], s.ctx))

\* ctx.strokeText(text, x, y)
strokeText(s, text, x, y) ==
    issue(s, withShadow([noOp EXCEPT !.op = "strokeText", !.text = text, !.x = x, !.y = y,
                                     !.font = s.ctx.font,
                                     !.textAlign = s.ctx.textAlign,
                                     !.textBaseline = s.ctx.textBaseline,
                                     !.strokeStyle = s.ctx.strokeStyle,
                                     !.lineWidth = s.ctx.lineWidth,
                                     !.lineJoin = s.ctx.lineJoin,
                                     !.lineCap = s.ctx.lineCap,
                                     !.miterLimit = s.ctx.miterLimit,
                                     !.lineDash = s.ctx.lineDash], s.ctx))

\* beginPath(); moveTo(x, y); lineTo(x + w, y + h); stroke()
strokeLine(s, x, y, w, h) ==
    issue(s, withShadow([noOp EXCEPT !.op = "stroke", !.x = x, !.y = y, !.w = w, !.h = h,
                                     !.strokeStyle = s.ctx.strokeStyle,
                                     !.lineWidth = s.ctx.lineWidth,
                                     !.lineJoin = s.ctx.lineJoin,
                                     !.lineCap = s.ctx.lineCap,
                                     !.miterLimit = s.ctx.miterLimit,
                                     !.lineDash = s.ctx.lineDash], s.ctx))

\* ctx.save() / ctx.restore()
save(s) == [s EXCEPT !.stack = Append(@, s.ctx)]

restore(s) ==
    IF s.stack = <<>> THEN s
    ELSE [s EXCEPT !.ctx = s.stack[Len(s.stack)],
                   !.stack = SubSeq(s.stack, 1, Len(s.stack) - 1)]

\* shadowColor = 'transparent'; shadowBlur = 0; shadowOffsetX = 0; shadowOffsetY = 0
resetShadow(s) ==
    [s EXCEPT !.ctx.shadowColor = "transparent", !.ctx.shadowBlur = 0,
              !.ctx.shadowOffsetX = 0, !.ctx.shadowOffsetY = 0]

-----------------------------------------------------------------------------
(* Compositor: utils/canvas.ts *)

\* for (let i = 1; i <= depth; i++) ctx.fillText(text, textX + i, textY + i)
RECURSIVE fillTextCopies(_, _, _, _, _, _)
fillTextCopies(s, text, x, y, i, depth) ==
    IF i > depth THEN s
    ELSE fillTextCopies(fillText(s, text, x + Px(i), y + Px(i)), text, x, y, i + 1, depth)

\* drawText falling back to a default font for an unknown font id, and drawing
\* blank text
drawTextWithFallback(s, config) ==
    LET fontObject == IF findFont(config.fontId) = 0 THEN fonts[1]
                      ELSE fonts[findFont(config.fontId)]
        styled == [resetShadow(s) EXCEPT
                       !.ctx.font = fontOf(fontObject.weight, config.fontSize,
                                           fontObject.family),
                       !.ctx.textAlign = "left",
                       !.ctx.textBaseline = "top",
                       !.ctx.fillStyle = config.color1]
    IN  resetShadow(fillText(styled, config.text, config.x, config.y))

\* drawText(ctx, config), called with the layer's own x and y
drawText(s, config) ==
    LET text == config.text
        x == config.x
        y == config.y
        fontSize == config.fontSize
        effects == config.effectIds
        fontObject == fonts[findFont(config.fontId)]
        fontWeight == IF has(effects, "bold") THEN "900" ELSE fontObject.weight
        reset == resetShadow(s)
        styled == [reset EXCEPT !.ctx.font = fontOf(fontWeight, fontSize, fontObject.family),
                                !.ctx.textAlign = "left",
                                !.ctx.textBaseline = "top"]
        \* 1. faux 3D
        depth == Max(1, fontSize \div 30)
        faux3d == IF has(effects, "faux-3d")
                  THEN fillTextCopies([styled EXCEPT !.ctx.fillStyle = config.color2],
                                      text, x, y, 1, depth)
                  ELSE styled
        \* 2. fill style
        filled == [faux3d EXCEPT !.ctx.fillStyle =
                        IF has(effects, "neon") THEN "#FFFFFF" ELSE config.color1]
        \* 3. shadow
        shadowed == IF has(effects, "neon")
                    THEN [filled EXCEPT !.ctx.shadowColor = config.color1,
                                        !.ctx.shadowBlur = 15]
                    ELSE IF has(effects, "shadow")
                    THEN [filled EXCEPT !.ctx.shadowColor = config.color2,
                                        !.ctx.shadowBlur = 10,
                                        !.ctx.shadowOffsetX = 5,
                                        !.ctx.shadowOffsetY = 5]
                    ELSE filled
        \* 4. stroke: lineWidth = Math.max(2, fontSize / 20)
        outlined == IF has(effects, "outline")
                    THEN strokeText([shadowed EXCEPT !.ctx.strokeStyle = config.color2,
                                                     !.ctx.lineWidth = Max(200, fontSize * 5),
                                                     !.ctx.lineJoin = "round",
                                                     !.ctx.miterLimit = 2],
                                    text, x, y)
                    ELSE shadowed
        \* 5. main fill and the second neon pass
        main == fillText(outlined, text, x, y)
        glow == IF has(effects, "neon")
                THEN fillText([main EXCEPT !.ctx.shadowBlur = 30], text, x, y)
                ELSE main
        cleared == resetShadow(glow)
        \* 6. glitch
        magenta == fillText([cleared EXCEPT !.ctx.fillStyle = "rgba(255, 0, 255, 0.5)"],
                            text, x - Px(5), y)
        cyan == fillText([magenta EXCEPT !.ctx.fillStyle = "rgba(0, 255, 255, 0.5)"],
                         text, x + Px(5), y)
        glitched == IF has(effects, "glitch")
                    THEN fillText([cyan EXCEPT !.ctx.fillStyle =
                                        IF has(effects, "neon") THEN "#FFFFFF"
                                        ELSE config.color1],
                                  text, x, y)
                    ELSE cleared
    IN  IF IsBlank(config.text) THEN s
        ELSE IF findFont(config.fontId) = 0 THEN s
        ELSE resetShadow(glitched)

\* textBlocks.forEach(textBlock => drawText(ctx, textBlock))
RECURSIVE drawAllText(_, _)
drawAllText(s, blocks) ==
    IF blocks = <<>> THEN s ELSE drawAllText(drawText(s, Head(blocks)), Tail(blocks))

\* canvas.toDataURL('image/png'): the encoding of what was drawn on a canvas of this
\* size; the empty string when there is nothing to encode
toDataURL(s, width, height) == [data |-> s.ops, width |-> width, height |-> height]

emptyResult == [data |-> <<>>, width |-> 0, height |-> 0]

-----------------------------------------------------------------------------
(* VisualCanvas: drawing the live canvas *)

\* (Math.random() - 0.5) * glitchIntensity, for the two calls of a glitch layer
GlitchOffsets == { [x |-> 0 - Px(4), y |-> Px(2)], [x |-> Px(2), y |-> 0], [x |-> 0, y |-> 0] }

\* drawTextWithEffects without ctx.save() / ctx.restore(): the fill of the layer
\* under whatever shadow the context holds, which the shadow effect then leaves set
drawTextWithEffectsUnrestored(s, textBlock, glitch) ==
    LET font == findFont(textBlock.fontId)
        styled == [s EXCEPT !.ctx.font = fontOf(IF font # 0 THEN fonts[font].weight
                                                ELSE "400",
                                                textBlock.fontSize,
                                                IF font # 0 THEN fonts[font].family
                                                ELSE "Arial"),
                            !.ctx.textAlign = "left",
                            !.ctx.textBaseline = "top",
                            !.ctx.fillStyle = textBlock.color1]
        drawn == fillText(styled, textBlock.text, textBlock.x, textBlock.y)
    IN  IF IsBlank(textBlock.text) THEN s
        ELSE IF has(textBlock.effectIds, "shadow")
        THEN [drawn EXCEPT !.ctx.shadowColor = "rgba(0, 0, 0, 0.5)", !.ctx.shadowBlur = 4,
                           !.ctx.shadowOffsetX = 2, !.ctx.shadowOffsetY = 2]
        ELSE drawn

\* drawTextWithEffects(ctx, textBlock); glitch is the pair of offsets drawn for it
drawTextWithEffects(s, textBlock, glitch) ==
    LET text == textBlock.text
        x == textBlock.x
        y == textBlock.y
        fontSize == textBlock.fontSize
        effectIds == textBlock.effectIds
        color1 == textBlock.color1
        color2 == textBlock.color2
        font == findFont(textBlock.fontId)
        fontFamily == IF font # 0 THEN fonts[font].family ELSE "Arial"
        fontWeight == IF font # 0 THEN fonts[font].weight ELSE "400"
        styled == save([s EXCEPT !.ctx.font = fontOf(fontWeight, fontSize, fontFamily),
                                 !.ctx.textAlign = "left",
                                 !.ctx.textBaseline = "top"])
        \* 1. bold: the keyword bold is weight 700
        bold == IF has(effectIds, "bold")
                THEN [styled EXCEPT !.ctx.font = fontOf("700", fontSize, fontFamily)]
                ELSE styled
        \* 2. faux 3D: three fills with a growing shadow offset
        copy1 == fillText([bold EXCEPT !.ctx.shadowColor = "rgba(0, 0, 0, 0.3)",
                                       !.ctx.shadowBlur = 0,
                                       !.ctx.shadowOffsetX = 3,
                                       !.ctx.shadowOffsetY = 3,
                                       !.ctx.fillStyle = color1], text, x, y)
        copy2 == fillText([copy1 EXCEPT !.ctx.shadowOffsetX = 6, !.ctx.shadowOffsetY = 6],
                          text, x, y)
        copy3 == fillText([copy2 EXCEPT !.ctx.shadowOffsetX = 9, !.ctx.shadowOffsetY = 9],
                          text, x, y)
        faux3d == IF has(effectIds, "faux-3d") THEN copy3 ELSE bold
        \* 3. outline: four strokes around the anchor
        pen == [faux3d EXCEPT !.ctx.strokeStyle = color2, !.ctx.lineWidth = 400,
                              !.ctx.lineJoin = "round", !.ctx.lineCap = "round"]
        outlined == IF has(effectIds, "outline")
                    THEN strokeText(strokeText(strokeText(strokeText(pen,
                             text, x - Px(1), y - Px(1)),
                             text, x + Px(1), y - Px(1)),
                             text, x - Px(1), y + Px(1)),
                             text, x + Px(1), y + Px(1))
                    ELSE faux3d
        \* 4. fill style
        filled == [outlined EXCEPT !.ctx.fillStyle = color1]
        \* 5. shadow
        shadowed == IF has(effectIds, "shadow")
                    THEN [filled EXCEPT !.ctx.shadowColor = "rgba(0, 0, 0, 0.5)",
                                        !.ctx.shadowBlur = 4,
                                        !.ctx.shadowOffsetX = 2,
                                        !.ctx.shadowOffsetY = 2]
                    ELSE filled
        \* 6. neon
        neon == IF has(effectIds, "neon")
                THEN [shadowed EXCEPT !.ctx.shadowColor = color1, !.ctx.shadowBlur = 10]
                ELSE shadowed
        \* 7. glitch: three coloured copies between save and restore, then the text
        red == fillText([save(neon) EXCEPT !.ctx.fillStyle = "#ff0000"],
                        text, x + glitch.x, y + glitch.y)
        blue == fillText([red EXCEPT !.ctx.fillStyle = "#0000ff"],
                         text, x - glitch.x, y - glitch.y)
        green == fillText([blue EXCEPT !.ctx.fillStyle = "#00ff00"],
                          text, x + glitch.x \div 2, y - glitch.y \div 2)
        drawn == IF has(effectIds, "glitch")
                 THEN fillText(restore(green), text, x, y)
                 ELSE fillText(neon, text, x, y)
    IN  IF IsBlank(textBlock.text) THEN s ELSE restore(drawn)

\* the layers that draw Math.random() offsets
glitchLayers(blocks) ==
    { i \in 1..Len(blocks) : ~IsBlank(blocks[i].text) /\ has(blocks[i].effectIds, "glitch") }

\* textBlocks.forEach(textBlock => drawTextWithEffects(ctx, textBlock)), from the
\* i-th layer on; randoms gives the offsets of each glitch layer
RECURSIVE drawTextBlocksFrom(_, _, _, _)
drawTextBlocksFrom(s, blocks, randoms, i) ==
    IF i > Len(blocks) THEN s
    ELSE drawTextBlocksFrom(
             drawTextWithEffects(s, blocks[i],
                 IF i \in DOMAIN randoms THEN randoms[i] ELSE [x |-> 0, y |-> 0]),
             blocks, randoms, i + 1)

\* alignmentGuides.vertical.forEach(x => ...stroke())
RECURSIVE strokeVertical(_, _, _)
strokeVertical(s, xs, height) ==
    IF xs = <<>> THEN s
    ELSE strokeVertical(strokeLine(s, Head(xs), 0, 0, Px(height)), Tail(xs), height)

\* alignmentGuides.horizontal.forEach(y => ...stroke())
RECURSIVE strokeHorizontal(_, _, _)
strokeHorizontal(s, ys, width) ==
    IF ys = <<>> THEN s
    ELSE strokeHorizontal(strokeLine(s, 0, Head(ys), Px(width), 0), Tail(ys), width)

\* drawCanvas with a context: s is the canvas as the draw before left it, background
\* the cached image (or "null"), dragging and guides the state of the render that
\* created the callback
drawCanvas(s, blocks, width, height, background, dragging, guides, randoms) ==
    LET cleared == clearRect([s EXCEPT !.ops = <<>>], width, height)
        backed == IF background # "null" THEN drawImage(cleared, background, width, height)
                  ELSE cleared
        pen == [save(backed) EXCEPT !.ctx.strokeStyle = "#00ff00", !.ctx.lineWidth = 100,
                                    !.ctx.lineDash = <<5, 5>>]
        guided == IF dragging
                  THEN restore(strokeHorizontal(strokeVertical(pen, guides.vertical, height),
                                                guides.horizontal, width))
                  ELSE backed
    IN  drawTextBlocksFrom(guided, blocks, randoms, 1)

-----------------------------------------------------------------------------
(* Calls of the two drawing routines *)

NoDraw ==
    [called |-> FALSE, ctx |-> FALSE, textBlocks |-> <<>>, width |-> 0, height |-> 0,
     background |-> "null", dragging |-> FALSE, guides |-> NoGuides, ops |-> <<>>]

NoCall == [backgroundImage |-> "null", textBlocks |-> <<>>, width |-> 0, height |-> 0,
           ctx |-> FALSE, called |-> FALSE]

NoRender == [call |-> NoCall, ops |-> <<>>, resolved |-> <<>>, img |-> "none"]

\* no routine has been called yet
compositorIdle ==
    /\ liveCanvas = newCanvas
    /\ lastDraw = NoDraw
    /\ previousDraw = NoDraw
    /\ renderCall = NoCall
    /\ exportCanvas = newCanvas
    /\ img = "none"
    /\ resolved = <<>>
    /\ previousRender = NoRender

\* drawCanvas(): ctxAvailable tells whether canvasRef.current.getContext('2d') gave a
\* context, randoms what Math.random() gives the glitch layers
drawCanvasCalled(ctxAvailable, randoms) ==
    LET drawn == drawCanvas(liveCanvas, textBlocks, canvasWidth, canvasHeight,
                            paintedBackground, isDragging, alignmentGuides, randoms)
        call == [called |-> TRUE, ctx |-> ctxAvailable, textBlocks |-> textBlocks,
                 width |-> canvasWidth, height |-> canvasHeight,
                 background |-> paintedBackground, dragging |-> isDragging,
                 guides |-> alignmentGuides, ops |-> <<>>]
    IN  /\ previousDraw' = lastDraw
        /\ IF ctxAvailable
           THEN /\ liveCanvas' = drawn
                /\ lastDraw' = [call EXCEPT !.ops = drawn.ops]
           ELSE /\ liveCanvas' = liveCanvas          \* if (!ctx) return
                /\ lastDraw' = call
        /\ lastEvent' = Event("drawCanvas", 0, 0, IF ctxAvailable THEN "ctx" ELSE "null",
                              canvasWidth, canvasHeight)

\* the closure drawAllText of a call: draw the layers, then resolve with the data URL
drawAllTextResolved(s, call, sofar) ==
    /\ exportCanvas' = drawAllText(s, call.textBlocks)
    /\ resolved' = Append(sofar, toDataURL(exportCanvas', call.width, call.height))

\* renderComposition going on without a context
renderCompositionCalledUnchecked(ctxAvailable) ==
    LET call == [backgroundImage |-> backgroundImage, textBlocks |-> textBlocks,
                 width |-> canvasWidth, height |-> canvasHeight,
                 ctx |-> ctxAvailable, called |-> TRUE]
        cleared == clearRect(newCanvas, call.width, call.height)
    IN  /\ img # "loading"
        /\ previousRender' = [call |-> renderCall, ops |-> exportCanvas.ops,
                              resolved |-> resolved, img |-> img]
        /\ renderCall' = call
        /\ IF call.backgroundImage # "null"
           THEN /\ exportCanvas' = cleared
                /\ resolved' = <<>>
                /\ img' = "loading"
           ELSE /\ drawAllTextResolved(cleared, call, <<>>)
                /\ img' = "none"
        /\ lastEvent' = Event("renderComposition", 0, 0,
                              IF ctxAvailable THEN "ctx" ELSE "null",
                              call.width, call.height)

\* renderComposition(backgroundImage, textBlocks, width, height) up to the point where
\* it returns or waits for the image; ctxAvailable tells whether getContext('2d') gave
\* a context
renderCompositionCalled(ctxAvailable) ==
    LET call == [backgroundImage |-> backgroundImage, textBlocks |-> textBlocks,
                 width |-> canvasWidth, height |-> canvasHeight,
                 ctx |-> ctxAvailable, called |-> TRUE]
        cleared == clearRect(newCanvas, call.width, call.height)
    IN  /\ img # "loading"          \* one call is followed at a time
        /\ previousRender' = [call |-> renderCall, ops |-> exportCanvas.ops,
                              resolved |-> resolved, img |-> img]
        /\ renderCall' = call
        /\ IF ~ctxAvailable
           THEN /\ exportCanvas' = newCanvas                   \* if (!ctx) return resolve('')
                /\ resolved' = <<emptyResult>>
                /\ img' = "none"
           ELSE IF call.backgroundImage # "null"
           THEN /\ exportCanvas' = cleared
                /\ resolved' = <<>>
                /\ img' = "loading"                            \* img.src = backgroundImage
           ELSE /\ drawAllTextResolved(cleared, call, <<>>)
                /\ img' = "none"
        /\ lastEvent' = Event("renderComposition", 0, 0,
                              IF ctxAvailable THEN "ctx" ELSE "null",
                              call.width, call.height)

\* img.onload drawing the layers first and the image over them
imgOnloadTextFirst ==
    /\ img = "loading"
    /\ img' = "loaded"
    /\ exportCanvas' = drawImage(drawAllText(exportCanvas, renderCall.textBlocks),
                                 renderCall.backgroundImage,
                                 renderCall.width, renderCall.height)
    /\ resolved' = Append(resolved,
                          toDataURL(exportCanvas', renderCall.width, renderCall.height))
    /\ lastEvent' = Event("img.onload", 0, 0, renderCall.backgroundImage,
                          renderCall.width, renderCall.height)
    /\ UNCHANGED <<renderCall, previousRender>>

\* img.onload of the call
imgOnload ==
    /\ img = "loading"
    /\ img' = "loaded"
    /\ drawAllTextResolved(drawImage(exportCanvas, renderCall.backgroundImage,
                                     renderCall.width, renderCall.height),
                           renderCall, resolved)
    /\ lastEvent' = Event("img.onload", 0, 0, renderCall.backgroundImage,
                          renderCall.width, renderCall.height)
    /\ UNCHANGED <<renderCall, previousRender>>

\* img.onerror giving up: nothing is drawn and the promise is left pending
imgOnerrorGivingUp ==
    /\ img = "loading"
    /\ img' = "failed"
    /\ lastEvent' = Event("img.onerror", 0, 0, renderCall.backgroundImage,
                          renderCall.width, renderCall.height)
    /\ UNCHANGED <<renderCall, previousRender, exportCanvas, resolved>>

\* img.onerror of the call
imgOnerror ==
    /\ img = "loading"
    /\ img' = "failed"
    /\ drawAllTextResolved(exportCanvas, renderCall, resolved)
    /\ lastEvent' = Event("img.onerror", 0, 0, renderCall.backgroundImage,
                          renderCall.width, renderCall.height)
    /\ UNCHANGED <<renderCall, previousRender>>

-----------------------------------------------------------------------------
(* Specification of the interaction controller *)

\* client coordinates of the pointer events
Pointers ==
    { <<136, 128>>,      \* inside the seeded title
      <<214, 150>>,      \* on its resize handle
      <<50, 176>>,       \* inside the seeded first subtitle
      <<332, 240>>,      \* near the bottom-right corner of the canvas
      <<0, 0>> }         \* above and left of the canvas

Init ==
    /\ canvasSizeId = "youtube_thumb"
    /\ backgroundImage = "null"
    /\ textBlocks = initialTextBlocks(activeCanvasSize("youtube_thumb"))
    /\ selectedTextBlockId = "main"
    \* the mount effect has called updateImage once, without a background
    /\ outputImage = dataUrl(renderComposition(1, "null",
                                  initialTextBlocks(activeCanvasSize("youtube_thumb")),
                                  activeCanvasSize("youtube_thumb"), "none"))
    /\ renderRef = 1
    /\ renders = <<>>
    /\ isDragging = FALSE
    /\ dragOffset = [x |-> 0, y |-> 0]
    /\ draggedTextBlockId = "null"
    /\ dragMode = "move"
    /\ initialFontSize = 0
    /\ animationFrameId = 0
    /\ alignmentGuides = NoGuides
    /\ backgroundImageRef = "null"
    /\ backgroundImageLoadedRef = TRUE
    /\ imageLoads = <<>>
    /\ frames = {}
    /\ listenerFrameId = 0
    /\ pendingFrameId = NoUpdate
    /\ compositorIdle
    /\ presets = NoPresets
    /\ lastEvent = NoEvent
    /\ nEvents = 0

UserEvent == nEvents < MaxEvents /\ nEvents' = nEvents + 1

MouseDown ==
    \E p \in Pointers :
        handleMouseDown(p[1], p[2]) /\ UserEvent
        /\ UNCHANGED <<renderVars, imageVars, compositorVars, presets>>

DotMouseDown == handleDotMouseDown /\ UserEvent
    /\ UNCHANGED <<renderVars, imageVars, compositorVars, presets>>

MouseMove ==
    \E p \in Pointers :
        handleMouseMove(p[1], p[2]) /\ UserEvent
        /\ UNCHANGED <<renderVars, imageVars, compositorVars, presets>>

MouseUp == handleMouseUp /\ UserEvent /\ UNCHANGED <<renderVars, imageVars, compositorVars, presets>>

Frame ==
    \E f \in frames :
        /\ frameCallback(f)
        /\ IF findIndex(f.blocks, f.dragged) # 0 THEN updateImageEffect
           ELSE UNCHANGED renderVars
        /\ UNCHANGED <<imageVars, nEvents, compositorVars, presets>>

EditText ==
    \E t \in TextEntries :
        /\ editText(t) /\ appRendered /\ updateImageEffect /\ UserEvent
        /\ UNCHANGED <<imageVars, compositorVars, presets>>

EditFontSize ==
    \E n \in FontSizeEntries :
        /\ editFontSize(n) /\ appRendered /\ updateImageEffect /\ UserEvent
        /\ UNCHANGED <<imageVars, compositorVars, presets>>

PresetFontSize ==
    \E n \in FontSizePresets :
        /\ presetFontSize(n) /\ appRendered /\ updateImageEffect /\ UserEvent
        /\ UNCHANGED <<imageVars, compositorVars, presets>>

SelectTextBlock ==
    \E id \in LayerIds :
        selectTextBlock(id) /\ appRendered /\ UserEvent
        /\ UNCHANGED <<renderVars, imageVars, compositorVars, presets>>

\* the size buttons pressed: the square preset and the preset the editor starts with
SizeEntries == { "square", "youtube_thumb" }

SetCanvasSize ==
    \E id \in SizeEntries :
        /\ setCanvasSizeId(id) /\ appRendered /\ updateImageEffect /\ UserEvent
        /\ UNCHANGED <<imageVars, compositorVars, presets>>

Next ==
    \/ MouseDown
    \/ DotMouseDown
    \/ MouseMove
    \/ MouseUp
    \/ Frame
    \/ EditText
    \/ EditFontSize
    \/ PresetFontSize
    \/ SelectTextBlock
    \/ SetCanvasSize

Spec == Init /\ [][Next]_vars

-----------------------------------------------------------------------------
(* Specification of the image pipelines: export renders and the live background *)

MoreRenders == renderRef < MaxRenders

UploadImage ==
    \E b \in Images :
        /\ MoreRenders
        /\ handleImageUpload(b) /\ updateImageEffect /\ backgroundImageEffect
        /\ UNCHANGED <<dragVars, nEvents, compositorVars, presets>>

ClearImage ==
    /\ MoreRenders
    /\ handleClearImage /\ updateImageEffect /\ backgroundImageEffect
    /\ UNCHANGED <<dragVars, nEvents, compositorVars, presets>>

EditLayer ==
    \E n \in FontSizePresets :
        /\ MoreRenders
        /\ presetFontSize(n) /\ updateImageEffect
        /\ UNCHANGED <<dragVars, imageVars, nEvents, compositorVars, presets>>

RenderResolved ==
    \E i \in 1..Len(renders) :
        updateImageResolved(i)
        /\ UNCHANGED <<appVars, dragVars, imageVars, nEvents, compositorVars, presets>>

ImageOnload ==
    \E i \in 1..Len(imageLoads) :
        imageOnload(i) /\ UNCHANGED <<appVars, renderVars, dragVars, nEvents, compositorVars, presets>>

ImageFailed ==
    \E i \in 1..Len(imageLoads) :
        imageFailed(i) /\ UNCHANGED <<appVars, renderVars, dragVars, nEvents, compositorVars, presets>>

NextImage ==
    \/ UploadImage
    \/ ClearImage
    \/ EditLayer
    \/ RenderResolved
    \/ ImageOnload
    \/ ImageFailed

SpecImage == Init /\ [][NextImage]_vars

-----------------------------------------------------------------------------
(* Specification of hit-testing: pointer-downs over layouts of small layers *)

\* layouts the three layers can be dragged, resized and edited into: the first layer
\* stays at (100, 100) px; the second lies on it or over the first layer's resize
\* dot, and so does the third
HitSizes == { 12, 40 }

HitLayouts ==
    LET seed == initialTextBlocks(activeCanvasSize("youtube_thumb"))
    IN  { << [seed[1] EXCEPT !.text = <<"a", "b">>, !.fontSize = 40,
                             !.x = Px(100), !.y = Px(100)],
             [seed[2] EXCEPT !.text = t2, !.fontSize = s2, !.x = p2[1], !.y = p2[2]],
             [seed[3] EXCEPT !.text = t3, !.fontSize = s3, !.x = p3[1], !.y = p3[2]] >> :
          t2 \in {<<" ", " ", " ">>, <<"a", "b">>}, t3 \in {<<>>, <<"c", "d">>},
          s2 \in HitSizes, s3 \in HitSizes,
          p2 \in {<<Px(100), Px(100)>>, <<Px(190), Px(170)>>},
          p3 \in {<<Px(130), Px(110)>>, <<Px(200), Px(180)>>} }

\* client coordinates of the pointer-downs; in canvas pixels
HitPointers ==
    { <<42, 90>>,        \* (104, 104): inside the first layer
      <<41, 88>>,        \* (100, 96): above the first layer
      <<50, 96>>,        \* (136, 128): on the first layer's resize handle
      <<49, 92>>,        \* (132, 112): inside the first layer, right of its middle
      <<72, 115>> }      \* (224, 204): where the first layer's resize dot is drawn

InitHit ==
    /\ canvasSizeId = "youtube_thumb"
    /\ backgroundImage = "null"
    /\ textBlocks \in HitLayouts
    /\ selectedTextBlockId = "main"
    /\ outputImage = dataUrl(renderComposition(1, "null", textBlocks,
                                  activeCanvasSize("youtube_thumb"), "none"))
    /\ renderRef = 1
    /\ renders = <<>>
    /\ isDragging = FALSE
    /\ dragOffset = [x |-> 0, y |-> 0]
    /\ draggedTextBlockId = "null"
    /\ dragMode = "move"
    /\ initialFontSize = 0
    /\ animationFrameId = 0
    /\ alignmentGuides = NoGuides
    /\ backgroundImageRef = "null"
    /\ backgroundImageLoadedRef = TRUE
    /\ imageLoads = <<>>
    /\ frames = {}
    /\ listenerFrameId = 0
    /\ pendingFrameId = NoUpdate
    /\ compositorIdle
    /\ presets = NoPresets
    /\ lastEvent = NoEvent
    /\ nEvents = 0

HitEvent == nEvents < MaxHitDowns /\ nEvents' = nEvents + 1

HitMouseDown ==
    \E p \in HitPointers :
        handleMouseDown(p[1], p[2]) /\ HitEvent
        /\ UNCHANGED <<renderVars, imageVars, compositorVars, presets>>

HitDotMouseDown == handleDotMouseDown /\ HitEvent
    /\ UNCHANGED <<renderVars, imageVars, compositorVars, presets>>

NextHit ==
    \/ HitMouseDown
    \/ HitDotMouseDown

SpecHit == InitHit /\ [][NextHit]_vars

-----------------------------------------------------------------------------
(* Specification of drag gestures: pointer events and frame callbacks only *)

\* client coordinates of the pointer events of a gesture
DragPointers ==
    { <<136, 128>>,      \* inside the seeded title, (40, 28) px from its corner
      <<214, 150>>,      \* on its resize handle
      <<186, 128>>,      \* brings the title's left edge onto the canvas centre line
      <<27, 128>>,       \* brings the title's left edge to 4 px from the canvas edge
      <<332, 240>> }     \* near the bottom-right corner of the canvas

DragEvent == nEvents < MaxDragEvents /\ nEvents' = nEvents + 1

DragMouseDown ==
    \E p \in DragPointers :
        handleMouseDown(p[1], p[2]) /\ DragEvent
        /\ UNCHANGED <<renderVars, imageVars, compositorVars, presets>>

DragDotMouseDown == handleDotMouseDown /\ DragEvent
    /\ UNCHANGED <<renderVars, imageVars, compositorVars, presets>>

DragMouseMove ==
    \E p \in DragPointers :
        handleMouseMove(p[1], p[2]) /\ DragEvent
        /\ UNCHANGED <<renderVars, imageVars, compositorVars, presets>>

DragMouseUp == handleMouseUp /\ DragEvent /\ UNCHANGED <<renderVars, imageVars, compositorVars, presets>>

DragFrame ==
    \E f \in frames :
        /\ frameCallback(f)
        /\ IF findIndex(f.blocks, f.dragged) # 0 THEN updateImageEffect
           ELSE UNCHANGED renderVars
        /\ UNCHANGED <<imageVars, nEvents, compositorVars, presets>>

NextDrag ==
    \/ DragMouseDown
    \/ DragDotMouseDown
    \/ DragMouseMove
    \/ DragMouseUp
    \/ DragFrame

SpecDrag == Init /\ [][NextDrag]_vars

-----------------------------------------------------------------------------
(* Specification of frame scheduling: the pointer-move listener, the render React
   schedules for its state update, and the display frames, as separate steps *)

\* client coordinates of the pointer events
FramePointers ==
    { <<136, 128>>,      \* inside the seeded title
      <<50, 176>>,       \* inside the first subtitle
      <<128, 155>>,      \* brings the subtitle's top left corner under the title's
      <<332, 240>> }     \* near the bottom-right corner of the canvas

FrameEvent == nEvents < MaxFrameEvents /\ nEvents' = nEvents + 1

FramesMouseDown ==
    \E p \in FramePointers :
        handleMouseDown(p[1], p[2]) /\ FrameEvent
        /\ UNCHANGED <<renderVars, imageVars, compositorVars, presets>>

FramesMouseMove ==
    \E p \in FramePointers :
        mouseMoveListener(p[1], p[2]) /\ FrameEvent
        /\ UNCHANGED <<renderVars, imageVars, compositorVars, presets>>

FramesRendered ==
    animationFrameIdRendered
    /\ UNCHANGED <<renderVars, imageVars, compositorVars, presets, nEvents>>

FramesMouseUp ==
    handleMouseUp /\ FrameEvent /\ UNCHANGED <<renderVars, imageVars, compositorVars, presets>>

FramesFrame ==
    \E f \in frames :
        /\ frameCallback(f)
        /\ IF findIndex(f.blocks, f.dragged) # 0 THEN updateImageEffect
           ELSE UNCHANGED renderVars
        /\ UNCHANGED <<imageVars, nEvents, compositorVars, presets>>

NextFrames ==
    \/ FramesMouseDown
    \/ FramesMouseMove
    \/ FramesRendered
    \/ FramesMouseUp
    \/ FramesFrame

SpecFrames == Init /\ [][NextFrames]_vars

-----------------------------------------------------------------------------
(* Specification of the compositor: the two drawing routines over edited layers *)

\* effect lists of the first layer, as the panel leaves them and as presets hold them
EffectLists ==
    { <<>>, <<"bold">>, <<"shadow">>, <<"neon">>, <<"outline">>, <<"faux-3d">>,
      <<"glitch">>, <<"neon", "shadow">>, <<"faux-3d", "outline">>,
      <<"bold", "glitch", "neon">>,
      <<"bold", "faux-3d", "glitch", "neon", "outline", "shadow">> }

\* font ids of the layers: one of the catalog and one it does not hold (a layer of a
\* loaded preset)
ComposeFontIds == { "jason-handwriting-1", "comic-sans" }

\* the seeded layers after edits: the title with its text, font and effects changed,
\* the first subtitle blanked or given the glitch effect
ComposeLayouts ==
    LET seed == initialTextBlocks(activeCanvasSize("youtube_thumb"))
    IN  { << [seed[1] EXCEPT !.text = <<"H", "i">>, !.fontId = f1, !.effectIds = e1],
             [seed[2] EXCEPT !.text = l2[1], !.fontId = l2[2], !.effectIds = l2[3]],
             seed[3] >> :
          f1 \in ComposeFontIds, e1 \in EffectLists,
          l2 \in { << <<" ", " ">>, "jason-handwriting-1", <<>> >>,
                   << <<"Y", "o">>, "jason-handwriting-1", <<"glitch">> >>,
                   << <<"Y", "o">>, "comic-sans", <<"shadow">> >> } }

\* the editor with edited layers, without a background or with one that has loaded
\* and has been exported
InitCompose ==
    /\ canvasSizeId = "youtube_thumb"
    /\ backgroundImage \in {"null", "imgA"}
    /\ textBlocks \in ComposeLayouts
    /\ selectedTextBlockId = "main"
    /\ outputImage = dataUrl(renderComposition(1, backgroundImage, textBlocks,
                                  activeCanvasSize("youtube_thumb"),
                                  IF backgroundImage = "null" THEN "none" ELSE "load"))
    /\ renderRef = 1
    /\ renders = <<>>
    /\ isDragging = FALSE
    /\ dragOffset = [x |-> 0, y |-> 0]
    /\ draggedTextBlockId = "null"
    /\ dragMode = "move"
    /\ initialFontSize = 0
    /\ animationFrameId = 0
    /\ alignmentGuides = NoGuides
    /\ backgroundImageRef = backgroundImage
    /\ backgroundImageLoadedRef = TRUE
    /\ imageLoads = <<>>
    /\ frames = {}
    /\ listenerFrameId = 0
    /\ pendingFrameId = NoUpdate
    /\ compositorIdle
    /\ presets = NoPresets
    /\ lastEvent = NoEvent
    /\ nEvents = 0

MoreDraws == nEvents < MaxDraws /\ nEvents' = nEvents + 1

\* the live canvas is redrawn
DrawCanvas ==
    \E ctxAvailable \in BOOLEAN :
        \E randoms \in [glitchLayers(textBlocks) -> GlitchOffsets] :
            /\ MoreDraws
            /\ drawCanvasCalled(ctxAvailable, randoms)
            /\ UNCHANGED <<appVars, renderVars, dragVars, imageVars, presets, callVars>>

\* updateImage calls renderComposition
RenderComposition ==
    \E ctxAvailable \in BOOLEAN :
        /\ MoreDraws
        /\ renderCompositionCalled(ctxAvailable)
        /\ UNCHANGED <<appVars, renderVars, dragVars, imageVars, presets, drawVars>>

ImgOnload ==
    imgOnload /\ UNCHANGED <<appVars, renderVars, dragVars, imageVars, presets, drawVars, nEvents>>

ImgOnerror ==
    imgOnerror /\ UNCHANGED <<appVars, renderVars, dragVars, imageVars, presets, drawVars, nEvents>>

NextCompose ==
    \/ DrawCanvas
    \/ RenderComposition
    \/ ImgOnload
    \/ ImgOnerror

SpecCompose == InitCompose /\ [][NextCompose]_vars

-----------------------------------------------------------------------------
(* Specification of the App operations: panel edits, effect toggles, clear-all,
   inspiration, presets, canvas sizes and a drag of the title *)

\* what localStorage holds under 'font-effects-presets' when PresetManager mounts:
\* JSON.parse hands its layers to the editor as they were written, whoever wrote them
StoredPresets ==
    LET seed == initialTextBlocks(activeCanvasSize("square"))
    IN  << [id |-> 1, name |-> "a", createdAt |-> 1,
            canvasSizeId |-> "square", backgroundImage |-> "imgA",
            textBlocks |-> << [seed[1] EXCEPT !.effectIds = <<"none", "shadow">>],
                              seed[2], seed[3] >>,
            selectedTextBlockId |-> "main"],
           [id |-> 2, name |-> "b", createdAt |-> 2,
            canvasSizeId |-> "youtube_thumb", backgroundImage |-> "null",
            textBlocks |-> << seed[1],
                              [seed[2] EXCEPT !.effectIds = <<"shadow", "bold">>],
                              seed[3] >>,
            selectedTextBlockId |-> "sub1"] >>

\* the editor after construction and PresetManager's mount effect
InitApp ==
    /\ canvasSizeId = "youtube_thumb"
    /\ backgroundImage = "null"
    /\ textBlocks = initialTextBlocks(activeCanvasSize("youtube_thumb"))
    /\ selectedTextBlockId = "main"
    /\ outputImage = dataUrl(renderComposition(1, "null",
                                  initialTextBlocks(activeCanvasSize("youtube_thumb")),
                                  activeCanvasSize("youtube_thumb"), "none"))
    /\ renderRef = 1
    /\ renders = <<>>
    /\ isDragging = FALSE
    /\ dragOffset = [x |-> 0, y |-> 0]
    /\ draggedTextBlockId = "null"
    /\ dragMode = "move"
    /\ initialFontSize = 0
    /\ animationFrameId = 0
    /\ alignmentGuides = NoGuides
    /\ backgroundImageRef = "null"
    /\ backgroundImageLoadedRef = TRUE
    /\ imageLoads = <<>>
    /\ frames = {}
    /\ listenerFrameId = 0
    /\ pendingFrameId = NoUpdate
    /\ compositorIdle
    /\ presets \in { NoPresets,
                     [state |-> StoredPresets, storage |-> stringify(StoredPresets)] }
    /\ lastEvent = NoEvent
    /\ nEvents = 0

AppEvent == nEvents < MaxAppEvents /\ nEvents' = nEvents + 1

\* the effect on [backgroundImage] of VisualCanvas, which runs when the value changed
backgroundImageRendered ==
    IF backgroundImage' # backgroundImage THEN backgroundImageEffect
    ELSE UNCHANGED imageVars

\* the effect buttons pressed, of the seven of the catalog
ToggledEffects == { "none", "bold", "shadow", "neon" }

\* client coordinates of the pointer events: inside the seeded title at both canvas
\* sizes, a place the title is dragged to, and the title's resize handle
AppPointers == { <<136, 128>>, <<186, 140>>, <<214, 150>> }

AppToggleEffect ==
    \E e \in ToggledEffects :
        /\ toggleEffect(e) /\ appRendered /\ updateImageEffect /\ AppEvent
        /\ UNCHANGED <<imageVars, compositorVars, presets>>

AppEditText ==
    /\ editText(<<" ", " ">>) /\ appRendered /\ updateImageEffect /\ AppEvent
    /\ UNCHANGED <<imageVars, compositorVars, presets>>

\* the clear button, disabled={isPristine}
AppClear ==
    /\ ~isPristine
    /\ handleClear /\ appRendered /\ updateImageEffect /\ backgroundImageRendered
    /\ AppEvent
    /\ UNCHANGED <<compositorVars, presets>>

AppInspiration ==
    \E d \in InspirationDraws :
        /\ handleInspiration(d.fontId, d.effectIds, d.layers) /\ appRendered /\ updateImageEffect /\ AppEvent
        /\ UNCHANGED <<imageVars, compositorVars, presets>>

\* Date.now() of a save: later than the ids of the presets there are
AppSavePreset ==
    /\ handleSavePreset("c", Len(presets.state) + 1) /\ AppEvent
    /\ UNCHANGED <<renderVars, dragVars, imageVars, compositorVars>>

AppLoadPreset ==
    \E i \in 1..Len(presets.state) :
        /\ handleLoadPreset(presets.state[i]) /\ appRendered /\ updateImageEffect
        /\ backgroundImageRendered /\ AppEvent
        /\ UNCHANGED compositorVars

AppSetCanvasSize ==
    \E id \in SizeEntries :
        /\ setCanvasSizeId(id) /\ appRendered /\ updateImageEffect /\ AppEvent
        /\ UNCHANGED <<imageVars, compositorVars, presets>>

AppMouseDown ==
    \E p \in AppPointers :
        handleMouseDown(p[1], p[2]) /\ AppEvent
        /\ UNCHANGED <<renderVars, imageVars, compositorVars, presets>>

AppDotMouseDown == handleDotMouseDown /\ AppEvent
    /\ UNCHANGED <<renderVars, imageVars, compositorVars, presets>>

AppMouseMove ==
    \E p \in AppPointers :
        handleMouseMove(p[1], p[2]) /\ AppEvent
        /\ UNCHANGED <<renderVars, imageVars, compositorVars, presets>>

AppMouseUp == handleMouseUp /\ AppEvent
    /\ UNCHANGED <<renderVars, imageVars, compositorVars, presets>>

AppFrame ==
    \E f \in frames :
        /\ frameCallback(f)
        /\ IF findIndex(f.blocks, f.dragged) # 0 THEN updateImageEffect
           ELSE UNCHANGED renderVars
        /\ UNCHANGED <<imageVars, nEvents, compositorVars, presets>>

NextApp ==
    \/ AppToggleEffect
    \/ AppEditText
    \/ AppClear
    \/ AppInspiration
    \/ AppSavePreset
    \/ AppLoadPreset
    \/ AppSetCanvasSize
    \/ AppMouseDown
    \/ AppDotMouseDown
    \/ AppMouseMove
    \/ AppMouseUp
    \/ AppFrame

SpecApp == InitApp /\ [][NextApp]_vars

-----------------------------------------------------------------------------
(* Properties of the image pipelines (SpecImage) *)

\* the most recently issued render is still pending
latestPending == \E i \in 1..Len(renders) : renders[i].renderId = renderRef

\* the exported image shows the composition as it is now
outputIsCurrent ==
    /\ outputImage.textBlocks = textBlocks
    /\ outputImage.width = canvasWidth
    /\ outputImage.height = canvasHeight
    /\ outputImage.background \in {backgroundImage, "null"}

\* C1 -- stale-render guard of updateImage: a resolved render is written to
\* outputImage only while it is the most recently issued one (the result of a
\* request A is never written once a request B has been issued), and once every
\* issued render has resolved, in whatever order, outputImage holds the result of
\* the last request, i.e. shows the current composition.
StaleRenderGuard ==
    /\ lastEvent.kind = "rendered" => lastEvent.w = renderRef
    /\ lastEvent.kind = "discarded" => lastEvent.w < renderRef
    /\ renders = <<>> => outputIsCurrent

\* request A (with a background) resolved after the later request B had resolved:
\* A was discarded and the output shows B with its background
StaleRenderGuardWitness ==
    /\ lastEvent.kind = "discarded"
    /\ renders = <<>>
    /\ backgroundImage # "null"
    /\ outputImage.background = backgroundImage
    /\ outputImage.textBlocks = textBlocks

\* C2 -- a render whose background never finishes loading only delays itself: it
\* stays pending and is never the render that wrote outputImage, and whenever the
\* most recently issued render has resolved, outputImage shows the current
\* composition although an earlier render still hangs.
HangingRenderDelaysOnlyItself ==
    /\ \A i \in 1..Len(renders) :
          renders[i].outcome = "never" =>
              ~(lastEvent.kind = "rendered" /\ lastEvent.w = renders[i].renderId)
    /\ ((\E i \in 1..Len(renders) : renders[i].outcome = "never") /\ ~latestPending)
          => outputIsCurrent

\* an earlier render hangs for ever, a later one loaded its background, resolved
\* as the latest request and was written
HangingRenderWitness ==
    /\ \E i \in 1..Len(renders) :
          renders[i].outcome = "never" /\ renders[i].renderId < renderRef
    /\ ~latestPending
    /\ lastEvent.kind = "rendered" /\ lastEvent.w = renderRef
    /\ backgroundImage # "null"
    /\ outputImage.background = backgroundImage

\* C3 -- live-canvas stale image guard, as claimed: when the load callback of an
\* image fires and no load is pending any more, the background that drawCanvas
\* paints is the image of the current backgroundImage prop (or none).
LiveCanvasShowsCurrentBackground ==
    (lastEvent.kind = "onload" /\ imageLoads = <<>>)
        => paintedBackground = backgroundImage

-----------------------------------------------------------------------------
(* Properties of the interaction controller (Spec) *)

\* the layer the last frame callback wrote
writtenBlock == textBlocks[findIndex(textBlocks, lastEvent.id)]

\* the approximate bounding box of layer tb lies within a canvas of w x h pixels
boxWithin(tb, w, h) ==
    /\ 0 <= tb.x /\ tb.x + getTextWidth(tb.text, tb.fontSize) <= Px(w)
    /\ 0 <= tb.y /\ tb.y + textHeight(tb) <= Px(h)

\* C4 (as claimed) -- every position written in Move mode keeps the layer's
\* approximate bounding box within the canvas: 0 <= x, x + width <= canvasWidth,
\* 0 <= y, y + fontSize <= canvasHeight (the canvas the pointer-move was handled on;
\* stated for layers whose font size is within the configured range).
MoveKeepsBoxWithinCanvas ==
    (lastEvent.kind = "moved" /\ writtenBlock.fontSize \in 10..500)
        => boxWithin(writtenBlock, lastEvent.w, lastEvent.h)

\* C4 (amended) -- every position written in Move mode satisfies 0 <= x and 0 <= y;
\* x + width <= canvasWidth holds when the layer is not wider than the canvas, and
\* x = 0 when it is; likewise y + fontSize <= canvasHeight when the layer is not
\* taller than the canvas, and y = 0 when it is.  The canvas is the one the
\* pointer-move was handled on.
MoveClamping ==
    lastEvent.kind = "moved" =>
        LET tb     == writtenBlock
            width  == getTextWidth(tb.text, tb.fontSize)
            height == textHeight(tb)
        IN  /\ 0 <= tb.x /\ 0 <= tb.y
            /\ IF width <= Px(lastEvent.w) THEN tb.x + width <= Px(lastEvent.w)
               ELSE tb.x = 0
            /\ IF height <= Px(lastEvent.h) THEN tb.y + height <= Px(lastEvent.h)
               ELSE tb.y = 0

\* a layer dragged beyond the bottom-right corner was stopped with its box against
\* the right and bottom edges of the canvas
MoveClampingWitness ==
    /\ lastEvent.kind = "moved"
    /\ writtenBlock.x > 0 /\ writtenBlock.y > 0
    /\ writtenBlock.x + getTextWidth(writtenBlock.text, writtenBlock.fontSize)
          = Px(lastEvent.w)
    /\ writtenBlock.y + textHeight(writtenBlock) = Px(lastEvent.h)
    /\ lastEvent.x - dragOffset.x > writtenBlock.x

\* C5 -- every font size written in Resize mode is an integer within [10, 500].
ResizeRange ==
    lastEvent.kind = "resized" =>
        writtenBlock.fontSize \in 10..500

\* a resize from a smaller size that was stopped at the maximum
ResizeRangeWitness ==
    /\ lastEvent.kind = "resized"
    /\ isDragging /\ initialFontSize \in 10..499
    /\ writtenBlock.fontSize = 500

\* C6 (as claimed) -- a Resize update of a layer whose approximate bounding box lies
\* within the canvas leaves the box within the canvas.
ResizeKeepsBoxWithinCanvas ==
    [][ \A i \in 1..Len(textBlocks) :
          ( /\ lastEvent'.kind = "resized"
            /\ lastEvent' # lastEvent
            /\ lastEvent'.id = textBlocks[i].id
            /\ textBlocks[i].fontSize \in 10..500
            /\ boxWithin(textBlocks[i], lastEvent'.w, lastEvent'.h) )
          => boxWithin(textBlocks'[i], lastEvent'.w, lastEvent'.h) ]_vars

\* C7 (as claimed) -- every layer's font size is within [10, 500] whatever operation
\* assigned it.
FontSizeWithinRange ==
    \A i \in 1..Len(textBlocks) : textBlocks[i].fontSize \in 10..500

-----------------------------------------------------------------------------
(* Properties of hit-testing (SpecHit) *)

\* the last event was a pointer-down, on the canvas or on the resize dot
pointerDown == lastEvent.kind \in {"down", "dot"}

\* the layers whose approximate bounding box contains the point of the last event
layersAtPoint ==
    { i \in 1..Len(textBlocks) :
        ~IsBlank(textBlocks[i].text) /\ inTextArea(textBlocks[i], lastEvent.x, lastEvent.y) }

\* C8 -- layers whose text is empty or only whitespace are never hit: after a
\* pointer-down the layer the hit test returned, the selected layer and the dragged
\* layer are not blank, wherever the pointer was.
BlankLayersNeverHit ==
    pointerDown =>
        \A i \in 1..Len(textBlocks) :
            IsBlank(textBlocks[i].text) =>
                /\ lastEvent.id # textBlocks[i].id
                /\ selectedTextBlockId # textBlocks[i].id
                /\ draggedTextBlockId # textBlocks[i].id

\* a pointer-down inside the box of a whitespace-only layer that no layer above it
\* covers: the hit test went past it to the layer underneath
BlankLayersNeverHitWitness ==
    /\ lastEvent.kind = "down"
    /\ \E i \in 2..Len(textBlocks) :
          /\ IsBlank(textBlocks[i].text) /\ textBlocks[i].text # <<>>
          /\ inTextArea(textBlocks[i], lastEvent.x, lastEvent.y)
          /\ \A j \in (i + 1)..Len(textBlocks) :
                ~inTextArea(textBlocks[j], lastEvent.x, lastEvent.y)
          /\ isDragging
          /\ findIndex(textBlocks, draggedTextBlockId) \in 1..(i - 1)

\* C9 -- for the layer the hit test returns, a point inside the layer's 16 x 16
\* resize-handle square gives mode 'resize', never 'move'.
HandleGivesResize ==
    (lastEvent.kind = "down" /\ lastEvent.id # "null") =>
        LET tb == textBlocks[findIndex(textBlocks, lastEvent.id)]
        IN  inResizeHandle(tb, lastEvent.x, lastEvent.y) =>
                /\ dragMode = "resize"
                /\ initialFontSize = tb.fontSize

\* a pointer-down on the handle of the hit layer, at a point that also lies in the
\* layer's text area
HandleGivesResizeWitness ==
    /\ lastEvent.kind = "down" /\ lastEvent.id # "null"
    /\ LET tb == textBlocks[findIndex(textBlocks, lastEvent.id)]
       IN  /\ inResizeHandle(tb, lastEvent.x, lastEvent.y)
           /\ inTextArea(tb, lastEvent.x, lastEvent.y)
    /\ dragMode = "resize"

\* C10 (as claimed) -- a pointer-down at a point of the overlap of the approximate
\* bounding boxes of two non-empty layers selects and drags the later of the two
\* (or a layer above it), never the earlier one or a layer below them.
PointerDownTakesLaterLayer ==
    pointerDown =>
        \A i \in layersAtPoint : \A j \in layersAtPoint :
            i < j =>
                /\ findIndex(textBlocks, draggedTextBlockId) >= j
                /\ selectedTextBlockId = draggedTextBlockId

\* C10 (amended) -- a pointer-down that the canvas handles (one that does not land on
\* the resize dot of the selected layer) at a point of the overlap of the approximate
\* bounding boxes of two non-empty layers selects and drags the last layer of the
\* list that the hit test matches at that point: the later of the two or a layer
\* above it, never the earlier one.
TopmostWins ==
    lastEvent.kind = "down" =>
        \A i \in layersAtPoint : \A j \in layersAtPoint :
            i < j =>
                LET k == findIndex(textBlocks, draggedTextBlockId)
                IN  /\ k >= j
                    /\ lastEvent.id = textBlocks[k].id
                    /\ selectedTextBlockId = textBlocks[k].id
                    /\ hitMode(textBlocks[k], lastEvent.x, lastEvent.y) = dragMode
                    /\ \A m \in (k + 1)..Len(textBlocks) :
                          hitMode(textBlocks[m], lastEvent.x, lastEvent.y) = "none"

\* a pointer-down in the overlap of the first layer and a later layer, at a point
\* that is not on the later layer's handle: the later layer is selected and dragged
TopmostWinsWitness ==
    /\ lastEvent.kind = "down"
    /\ \E j \in layersAtPoint :
          /\ 1 \in layersAtPoint /\ j > 1
          /\ draggedTextBlockId = textBlocks[j].id
          /\ selectedTextBlockId = textBlocks[j].id
          /\ dragMode = "move"

-----------------------------------------------------------------------------
(* Properties of drag gestures *)

\* the fields of the drag state are those of Idle
idleDragState ==
    /\ ~isDragging
    /\ draggedTextBlockId = "null"
    /\ dragMode = "move"
    /\ dragOffset = [x |-> 0, y |-> 0]
    /\ initialFontSize = 0

\* C11 -- a pointer-down on the canvas that hits a layer enters Dragging with the
\* mode and the layer the hit test reports and makes that layer the selected one; a
\* pointer-down that hits no layer changes neither the drag state nor the selection.
PointerDownEntersDragging ==
    [][ (lastEvent'.kind = "down" /\ nEvents' # nEvents) =>
          LET r == findTextBlockAtPosition(textBlocks, lastEvent'.x, lastEvent'.y)
          IN  IF r.hit
              THEN /\ isDragging'
                   /\ draggedTextBlockId' = textBlocks[r.index].id
                   /\ dragMode' = r.mode
                   /\ selectedTextBlockId' = textBlocks[r.index].id
              ELSE UNCHANGED <<isDragging, draggedTextBlockId, dragMode, dragOffset,
                               initialFontSize, selectedTextBlockId>> ]_vars

\* a pointer-down from Idle on the first subtitle, which was not the selected layer
PointerDownEntersDraggingWitness ==
    /\ lastEvent.kind = "down" /\ lastEvent.id = "sub1"
    /\ nEvents = 1
    /\ isDragging /\ draggedTextBlockId = "sub1" /\ dragMode = "move"
    /\ selectedTextBlockId = "sub1"

\* C12 -- a pointer-up returns the controller to Idle from every Dragging state:
\* isDragging false, no dragged layer, mode 'move', anchor offset and initial font
\* size zero; and the controller is in that state whenever it is not dragging.
PointerUpReturnsToIdle ==
    (lastEvent.kind = "up" \/ ~isDragging) => idleDragState

\* a pointer-up that ended a Resize drag which had changed the title's size
PointerUpReturnsToIdleWitness ==
    /\ lastEvent.kind = "up" /\ lastEvent.id = "main"
    /\ textBlocks[1].fontSize > 120
    /\ idleDragState

\* the pending frame callback of the latest pointer-move
latestFrame == { f \in frames : f.id = animationFrameId }

\* what the frame callback f writes to the dragged layer
computedBlock(f) ==
    LET coords == getCanvasCoordinates(f.clientX, f.clientY, f.canvasWidth,
                                       f.canvasHeight, getCanvasRect(canvasSizeId))
        textBlock == f.blocks[findIndex(f.blocks, f.dragged)]
    IN  IF f.mode = "resize" THEN resizedBlock(f, textBlock, coords)
        ELSE movedBlock(f, textBlock, coords)

\* C13 (as claimed) -- once the pointer is released and no frame callback is left to
\* run, the dragged layer holds the position or font size computed from the most
\* recent pointer-move of the drag.
PointerUpCommitsLatestMove ==
    [][ \A f \in latestFrame :
          (lastEvent.kind = "move" /\ lastEvent'.kind = "up" /\ frames' = {})
              => textBlocks'[findIndex(textBlocks', f.dragged)] = computedBlock(f) ]_vars

\* C13 (amended) -- releasing the pointer commits what the frame callbacks have
\* written: a pointer-up changes no layer, and the only steps that change a layer are
\* frame callbacks of pointer-moves, which write the dragged layer only; no step
\* restores the layer's values from before the drag.
PointerUpKeepsWrittenState ==
    [][ /\ (lastEvent'.kind = "up" /\ nEvents' # nEvents) => textBlocks' = textBlocks
        /\ textBlocks' # textBlocks =>
              /\ lastEvent'.kind \in {"moved", "resized"}
              /\ \A i \in 1..Len(textBlocks) :
                    textBlocks'[i] # textBlocks[i] => textBlocks[i].id = lastEvent'.id
      ]_vars

\* a pointer-up after a Move drag whose frame callback had run: the title stays
\* where the drag put it
PointerUpKeepsWrittenStateWitness ==
    /\ lastEvent.kind = "up" /\ lastEvent.id = "main"
    /\ frames = {}
    /\ textBlocks[1].x # initialTextBlocks(activeCanvasSize(canvasSizeId))[1].x
    /\ textBlocks[1].fontSize = 120

\* C14 (as claimed) -- the guides drawn are non-empty only while the controller is
\* Dragging in Move mode: none in Idle, none during a Resize drag.
GuidesOnlyDuringMove ==
    drawnGuides # NoGuides => (isDragging /\ dragMode = "move")

\* C15 (as claimed) -- when a Move update places the left edge of the dragged layer
\* within 5px of the canvas's vertical centre line, the guides computed for it
\* contain a vertical guide at canvasWidth / 2.
LeftEdgeNearCentreGivesGuide ==
    (lastEvent.kind = "moved"
        /\ Abs(writtenBlock.x - Px(lastEvent.w) \div 2) <= Px(tolerance))
    => \E k \in 1..Len(alignmentGuides.vertical) :
          alignmentGuides.vertical[k] = Px(lastEvent.w) \div 2

\* C16 -- guides are advisory: the position a Move update writes is exactly the
\* pointer position minus the captured anchor offset, clamped to the canvas, whether
\* or not a guide matched, and nothing else of the layer changes.
GuidesAreAdvisory ==
    [][ \A f \in frames :
          (frames' = frames \ {f} /\ lastEvent'.kind = "moved" /\ f.mode = "move") =>
              LET old == f.blocks[findIndex(f.blocks, f.dragged)]
                  new == textBlocks'[findIndex(textBlocks', f.dragged)]
                  width == getTextWidth(old.text, old.fontSize)
              IN  /\ new.x = Max(0, Min(lastEvent'.x - f.offset.x,
                                        Px(f.canvasWidth) - width))
                  /\ new.y = Max(0, Min(lastEvent'.y - f.offset.y,
                                        Px(f.canvasHeight) - Px(old.fontSize)))
                  /\ new = [old EXCEPT !.x = new.x, !.y = new.y] ]_vars

\* a Move update 4px from the canvas's left edge: the guide of that edge matched and
\* the layer was left where the pointer put it
GuidesAreAdvisoryWitness ==
    /\ lastEvent.kind = "moved"
    /\ alignmentGuides.vertical = <<0>>
    /\ writtenBlock.x = Px(4)
    /\ writtenBlock.x = lastEvent.x - dragOffset.x

-----------------------------------------------------------------------------
(* Properties of the compositor (SpecCompose) *)

\* the call of renderComposition has run to its end with a context
callDrawn == renderCall.called /\ renderCall.ctx /\ resolved # <<>>

\* a layer renderComposition cannot draw: blank text, or a font id the catalog lacks
undrawable(tb) ==
    \/ IsBlank(tb.text)
    \/ \A i \in 1..Len(fonts) : fonts[i].id # tb.fontId

\* the text operations of ops that carry the text of layer tb
opsOf(ops, tb) ==
    SelectSeq(ops, LAMBDA o : o.op \in {"fillText", "strokeText"} /\ o.text = tb.text)

\* the text operations of ops, each named by its text only
textsDrawn(ops) ==
    LET textOps == SelectSeq(ops, LAMBDA o : o.op \in {"fillText", "strokeText"})
    IN  [k \in 1..Len(textOps) |-> textOps[k].text]

\* seq without immediate repetitions
RECURSIVE dedup(_)
dedup(seq) ==
    IF Len(seq) <= 1 THEN seq
    ELSE IF seq[1] = seq[2] THEN dedup(Tail(seq))
    ELSE <<seq[1]>> \o dedup(Tail(seq))

\* the texts of the layers that can be drawn, in list order
drawableTexts(blocks) ==
    LET kept == SelectSeq(blocks, LAMBDA tb : ~undrawable(tb))
    IN  [k \in 1..Len(kept) |-> kept[k].text]

\* C17 -- renderComposition issues no draw operation for a layer whose text is empty
\* or white space or whose fontId is not in the font catalog, still resolves, and
\* draws every other layer, in list order.
CompositorSkipsUndrawable ==
    callDrawn =>
        /\ Len(resolved) = 1 /\ resolved[1] # emptyResult
        /\ \A i \in 1..Len(renderCall.textBlocks) :
              undrawable(renderCall.textBlocks[i])
                  => opsOf(exportCanvas.ops, renderCall.textBlocks[i]) = <<>>
        /\ dedup(textsDrawn(exportCanvas.ops)) = drawableTexts(renderCall.textBlocks)

\* a render of a title with an unknown font over a drawable subtitle and a blank one
CompositorSkipsUndrawableWitness ==
    /\ callDrawn
    /\ renderCall.textBlocks[1].fontId = "comic-sans"
    /\ ~undrawable(renderCall.textBlocks[2])
    /\ IsBlank(renderCall.textBlocks[3].text)
    /\ textsDrawn(exportCanvas.ops) # <<>>

\* the call of renderComposition got a context and is not waiting for its image
callSettled == renderCall.called /\ renderCall.ctx /\ img # "loading"

\* C18 -- a failed background load is not fatal: without a background, with one that
\* loads and with one that fails to load, renderComposition draws all the text layers
\* and resolves its promise exactly once, with the encoded canvas; after a load error
\* the operations are those of a call without a background, and only after a load is
\* the image drawn, before the text.
BackgroundFailureNonFatal ==
    /\ Len(resolved) <= 1
    /\ callSettled =>
          /\ resolved = <<toDataURL(exportCanvas, renderCall.width, renderCall.height)>>
          /\ dedup(textsDrawn(exportCanvas.ops)) = drawableTexts(renderCall.textBlocks)
          /\ exportCanvas.ops[1].op = "clearRect"
          /\ img = "loaded" <=> \E k \in 1..Len(exportCanvas.ops) :
                                    exportCanvas.ops[k].op = "drawImage"
          /\ img = "loaded" => exportCanvas.ops[2].op = "drawImage"
          /\ img = "failed" =>
                exportCanvas.ops =
                    drawAllText(clearRect(newCanvas, renderCall.width, renderCall.height),
                                renderCall.textBlocks).ops

\* a call whose background failed to load and which drew text and resolved
BackgroundFailureNonFatalWitness ==
    /\ callSettled
    /\ img = "failed"
    /\ renderCall.backgroundImage = "imgA"
    /\ Len(resolved) = 1
    /\ textsDrawn(resolved[1].data) # <<>>

\* C19 -- without a 2D context renderComposition resolves with the empty result, having
\* issued no draw operation and started no image load, and drawCanvas returns having
\* drawn nothing: the live canvas keeps what the draw before left on it.
SurfaceUnavailable ==
    [][ /\ (renderCall'.called /\ ~renderCall'.ctx) =>
              /\ resolved' = <<emptyResult>>
              /\ exportCanvas'.ops = <<>>
              /\ img' = "none"
        /\ (lastEvent'.kind = "drawCanvas" /\ ~lastDraw'.ctx) =>
              /\ lastDraw'.ops = <<>>
              /\ liveCanvas' = liveCanvas ]_vars

\* a call with a background and a redraw, both without a context
SurfaceUnavailableWitness ==
    /\ renderCall.called /\ ~renderCall.ctx
    /\ renderCall.backgroundImage = "imgA"
    /\ lastDraw.called /\ ~lastDraw.ctx
    /\ resolved = <<emptyResult>>

\* no layer of blocks draws the glitch effect
withoutGlitch(blocks) == \A i \in 1..Len(blocks) : ~has(blocks[i].effectIds, "glitch")

\* the call of renderComposition and the one before it got the same arguments, a
\* context, and the same answer from the background image
sameRenderTwice ==
    /\ callSettled
    /\ previousRender.call = renderCall
    /\ previousRender.img = img

\* the last two calls of drawCanvas had a context and read the same state
sameDrawTwice ==
    /\ lastDraw.called /\ lastDraw.ctx
    /\ [previousDraw EXCEPT !.ops = <<>>] = [lastDraw EXCEPT !.ops = <<>>]

\* C20 -- rendering the same composition twice issues the same draw operations with
\* the same parameters, in renderComposition and on the live canvas, when no layer
\* has the glitch effect.
RenderIdempotent ==
    /\ (sameRenderTwice /\ withoutGlitch(renderCall.textBlocks))
          => exportCanvas.ops = previousRender.ops
    /\ (sameDrawTwice /\ withoutGlitch(lastDraw.textBlocks))
          => lastDraw.ops = previousDraw.ops

\* two redraws of the live canvas over a loaded background, the title with the neon
\* and shadow effects
RenderIdempotentWitness ==
    /\ sameDrawTwice
    /\ withoutGlitch(lastDraw.textBlocks)
    /\ lastDraw.background = "imgA"
    /\ has(lastDraw.textBlocks[1].effectIds, "neon")
    /\ Len(lastDraw.ops) > 2

-----------------------------------------------------------------------------
(* Properties of the two drawing routines (SpecCompose) *)

\* the text operations of ops, with all their parameters
textOps(ops) == SelectSeq(ops, LAMBDA o : o.op \in {"fillText", "strokeText"})

\* drawCanvas and renderComposition have both drawn, with a context, the same layers
\* on a canvas of the same size
sameComposition ==
    /\ callSettled
    /\ lastDraw.called /\ lastDraw.ctx
    /\ lastDraw.textBlocks = renderCall.textBlocks
    /\ lastDraw.width = renderCall.width /\ lastDraw.height = renderCall.height

\* C21 -- the live view and the export agree: for the same composition the text
\* operations drawCanvas issues are those renderComposition issues, in the same order
\* and with the same parameters.
LiveAndExportAgree ==
    sameComposition => textOps(lastDraw.ops) = textOps(exportCanvas.ops)

\* lists holding the effect tags of effectIds in another order or with repeats
rearrangements(effectIds) ==
    LET n == Len(effectIds)
        reversed == [k \in 1..n |-> effectIds[n + 1 - k]]
    IN  IF n = 0 THEN { <<>> }
        ELSE { reversed, effectIds \o effectIds, reversed \o effectIds,
               Tail(effectIds) \o <<Head(effectIds)>>,
               <<effectIds[n]>> \o effectIds }

\* C22 -- the draw operations of a layer depend on which effect tags its effectIds
\* holds, not on their order or on repeats: for a list holding the same tags
\* drawText and drawTextWithEffects issue the operations they issued for the layer.
EffectOrderIndependent ==
    /\ callSettled =>
          \A i \in 1..Len(renderCall.textBlocks) :
             \A r \in rearrangements(renderCall.textBlocks[i].effectIds) :
                opsOf(exportCanvas.ops, renderCall.textBlocks[i])
                   = drawText(newCanvas,
                              [renderCall.textBlocks[i] EXCEPT !.effectIds = r]).ops
    /\ (lastDraw.called /\ lastDraw.ctx) =>
          \A i \in 1..Len(lastDraw.textBlocks) :
             \A r \in rearrangements(lastDraw.textBlocks[i].effectIds) :
                \E g \in GlitchOffsets :
                   opsOf(lastDraw.ops, lastDraw.textBlocks[i])
                      = drawTextWithEffects(newCanvas,
                            [lastDraw.textBlocks[i] EXCEPT !.effectIds = r], g).ops

\* both routines have drawn a title with all six effects and a subtitle with glitch
EffectOrderIndependentWitness ==
    /\ callSettled
    /\ lastDraw.called /\ lastDraw.ctx
    /\ Len(renderCall.textBlocks[1].effectIds) = 6
    /\ renderCall.textBlocks[2].effectIds = <<"glitch">>
    /\ Len(opsOf(exportCanvas.ops, renderCall.textBlocks[1])) > 4
    /\ Len(opsOf(lastDraw.ops, lastDraw.textBlocks[1])) > 4

\* no shadow is in force in the context state c (of a context, or recorded in an
\* operation)
shadowCleared(c) ==
    /\ c.shadowColor = "transparent" /\ c.shadowBlur = 0
    /\ c.shadowOffsetX = 0 /\ c.shadowOffsetY = 0

\* o is one of the coloured copies of the glitch effect
glitchCopy(o) ==
    /\ o.op = "fillText"
    /\ o.fillStyle \in { "rgba(255, 0, 255, 0.5)", "rgba(0, 255, 255, 0.5)",
                         "#ff0000", "#0000ff", "#00ff00" }

\* C23 -- shadow state never leaks: both routines leave the context with the shadow
\* cleared after the last layer, and the outline strokes and the glitch copies of a
\* layer are issued with no shadow in force, whatever the shadow, neon and faux-3d
\* effects of the layer set up.
ShadowNeverLeaks ==
    /\ callSettled => shadowCleared(exportCanvas.ctx)
    /\ shadowCleared(liveCanvas.ctx)
    /\ \A ops \in { exportCanvas.ops, lastDraw.ops } :
          \A k \in 1..Len(ops) :
             (ops[k].op = "strokeText" \/ glitchCopy(ops[k])) => shadowCleared(ops[k])

\* the layers of blocks that are drawn and whose effects are the shadows only
shadowLayers(blocks) ==
    { i \in 1..Len(blocks) :
         /\ ~undrawable(blocks[i])
         /\ has(blocks[i].effectIds, "shadow")
         /\ \A k \in 1..Len(blocks[i].effectIds) :
               blocks[i].effectIds[k] \in { "shadow", "neon" } }

\* the fill o of layer tb is drawn as the claim asks: with neon under the glow in
\* color1 without an offset, without neon under a shadow in color2 with a positive
\* offset
shadowYields(o, tb) ==
    IF has(tb.effectIds, "neon")
    THEN o.shadowColor = tb.color1 /\ o.shadowOffsetX = 0 /\ o.shadowOffsetY = 0
    ELSE o.shadowColor = tb.color2 /\ o.shadowOffsetX > 0 /\ o.shadowOffsetY > 0

\* C24 -- shadow yields to neon: the fill of a layer with the shadow and neon effects
\* is drawn under the neon glow only (shadow colour color1, no offset), the fill of a
\* layer with shadow and without neon under a shadow of colour color2 with a positive
\* offset, by renderComposition and by drawCanvas.
ShadowYieldsToNeon ==
    /\ callSettled =>
          \A i \in shadowLayers(renderCall.textBlocks) :
             LET drawn == opsOf(exportCanvas.ops, renderCall.textBlocks[i])
             IN  \A k \in 1..Len(drawn) : shadowYields(drawn[k], renderCall.textBlocks[i])
    /\ (lastDraw.called /\ lastDraw.ctx) =>
          \A i \in shadowLayers(lastDraw.textBlocks) :
             LET drawn == opsOf(lastDraw.ops, lastDraw.textBlocks[i])
             IN  \A k \in 1..Len(drawn) : shadowYields(drawn[k], lastDraw.textBlocks[i])

-----------------------------------------------------------------------------
(* Properties of frame scheduling (SpecFrames) *)

\* C25 -- frame coalescing: at most one frame callback of the drag is pending at any
\* time, each pointer-move having cancelled the callback of the one before, and a
\* callback that has written its layer update leaves no other callback to run in the
\* same display frame.
FrameCoalescing ==
    [][ /\ Cardinality(frames') <= 1
        /\ (textBlocks' # textBlocks /\ frames' # frames) => frames' = {} ]_vars

-----------------------------------------------------------------------------
(* Properties of renderComposition (SpecCompose) *)

\* the positions in ops of the operations with one of the names
positions(ops, names) == { k \in 1..Len(ops) : ops[k].op \in names }

\* C26 -- render ordering inside renderComposition: while the load callback of the
\* background image has not fired no text operation is issued and the promise is not
\* resolved; after a load the image is drawn before any text; the layers are drawn in
\* list order; and the promise is resolved with the canvas as it is after the last
\* layer.
RenderOrdering ==
    /\ img = "loading" =>
          /\ positions(exportCanvas.ops, {"fillText", "strokeText"}) = {}
          /\ resolved = <<>>
    /\ (callSettled /\ img = "loaded") =>
          /\ positions(exportCanvas.ops, {"drawImage"}) # {}
          /\ \A k \in positions(exportCanvas.ops, {"drawImage"}) :
                \A t \in positions(exportCanvas.ops, {"fillText", "strokeText"}) : k < t
    /\ callSettled =>
          /\ dedup(textsDrawn(exportCanvas.ops)) = drawableTexts(renderCall.textBlocks)
          /\ Len(resolved) = 1
          /\ resolved[1].data = exportCanvas.ops

\* a call with a background whose image loaded, with two layers drawn over it
RenderOrderingWitness ==
    /\ callSettled
    /\ img = "loaded"
    /\ lastEvent.kind = "img.onload"
    /\ drawableTexts(renderCall.textBlocks) = << <<"H", "i">>, <<"Y", "o">> >>
    /\ exportCanvas.ops[2].op = "drawImage"
    /\ Len(resolved) = 1

-----------------------------------------------------------------------------
(* Properties of the live canvas *)

\* the font catalog has no entry for the fontId of layer tb
unresolvedFont(tb) == findFont(tb.fontId) = 0

\* C27 -- the live view skips unresolved fonts: drawCanvas issues no draw operation
\* for a layer whose fontId is not in the font catalog.
LiveViewSkipsUnresolvedFonts ==
    (lastDraw.called /\ lastDraw.ctx) =>
        \A i \in 1..Len(lastDraw.textBlocks) :
           unresolvedFont(lastDraw.textBlocks[i])
              => opsOf(lastDraw.ops, lastDraw.textBlocks[i]) = <<>>

\* C28 -- the live view survives a failed background load: when the image of the
\* backgroundImage now supplied has failed to load, drawCanvas paints no background
\* behind the text (an image loaded before is not kept) and is not held back.
LiveViewSurvivesFailedLoad ==
    (lastEvent.kind = "onerror" /\ lastEvent.id = backgroundImage) =>
        /\ paintedBackground = "null"
        /\ backgroundImageLoadedRef

-----------------------------------------------------------------------------
(* Properties of resize drags (SpecDrag) *)

\* the font size the claim gives for the frame callback f of a resize drag: the
\* distance is taken from the bottom-right corner the layer had at pointer-down, when
\* its font size was the captured initialFontSize
sizeFromOriginalCorner(f) ==
    LET coords == getCanvasCoordinates(f.clientX, f.clientY, f.canvasWidth,
                                       f.canvasHeight, getCanvasRect(canvasSizeId))
        textBlock == f.blocks[findIndex(f.blocks, f.dragged)]
        cornerX == textBlock.x + getTextWidth(textBlock.text, f.initialFontSize)
        cornerY == textBlock.y + Px(f.initialFontSize)
    IN  resizeFontSize(f.initialFontSize, coords.x - cornerX, coords.y - cornerY)

\* C29 -- resize is measured from the original handle corner: the font size a frame
\* callback of a resize drag writes for the pointer position p is
\* clamp(initialFontSize + scale x distance(p, handle corner at pointer-down)),
\* whatever sizes the earlier pointer-moves of the drag produced.
ResizeFromOriginalCorner ==
    [][ \A f \in frames \ frames' :
          (f.mode = "resize" /\ lastEvent'.kind = "resized")
             => textBlocks'[findIndex(f.blocks, f.dragged)].fontSize
                   = sizeFromOriginalCorner(f) ]_vars

-----------------------------------------------------------------------------
(* Properties of the alignment guides (SpecFrames) *)

\* the vertical and the horizontal lines of a layer: its edges and its centre
verticalLines(tb) ==
    LET width == getTextWidth(tb.text, tb.fontSize)
    IN  { tb.x, tb.x + width, tb.x + width \div 2 }

horizontalLines(tb) == { tb.y, tb.y + textHeight(tb), tb.y + textHeight(tb) \div 2 }

\* the layers of blocks that may give the dragged layer d a guide
contributors(d, blocks) ==
    SelectSeq(blocks, LAMBDA tb : tb.id # d.id /\ ~IsBlank(tb.text))

\* line is a line of a contributor or one of the three lines of the canvas of this
\* extent, and lies within the tolerance of one of the lines of the dragged layer
justified(line, own, others, extent) ==
    /\ \/ \E k \in 1..Len(others) : line \in others[k]
       \/ line \in { 0, Px(extent), Px(extent) \div 2 }
    /\ \E l \in own : Abs(l - line) <= Px(5)

\* C30 -- the guide calculation ignores undrawable layers and the dragged layer: the
\* guides a frame callback of a move sets are those of the list without the blank
\* layers and without the dragged layer, and each of them is a line of a non-blank
\* sibling or an edge or the centre of the canvas, at most 5px from a line of the
\* dragged layer.
GuidesIgnoreBlankAndSelf ==
    [][ \A f \in frames \ frames' :
          lastEvent'.kind = "moved" =>
             LET d == textBlocks'[findIndex(textBlocks', f.dragged)]
                 siblings == contributors(d, f.blocks)
                 guides == alignmentGuides'
             IN  /\ guides = calculateAlignmentGuides(d, siblings,
                                                      f.canvasWidth, f.canvasHeight)
                 /\ \A j \in 1..Len(guides.vertical) :
                       justified(guides.vertical[j], verticalLines(d),
                                 [k \in 1..Len(siblings) |-> verticalLines(siblings[k])],
                                 f.canvasWidth)
                 /\ \A j \in 1..Len(guides.horizontal) :
                       justified(guides.horizontal[j], horizontalLines(d),
                                 [k \in 1..Len(siblings) |-> horizontalLines(siblings[k])],
                                 f.canvasHeight) ]_vars

\* the first subtitle dropped where it was, its left edge on the left edge of the
\* blank second subtitle: no guide is set
GuidesIgnoreBlankAndSelfWitness ==
    /\ lastEvent.kind = "moved"
    /\ lastEvent.id = "sub1"
    /\ IsBlank(textBlocks[3].text)
    /\ textBlocks[3].x = textBlocks[2].x
    /\ alignmentGuides = NoGuides

-----------------------------------------------------------------------------
(* Properties of the App operations (SpecApp) *)

\* no value occurs twice in the list
duplicateFree(l) == \A i, j \in 1..Len(l) : i # j => l[i] # l[j]

\* the list is in the order Array.prototype.sort() gives
inSortedOrder(l) == \A i \in 1..(Len(l) - 1) : ~sortsBefore(l[i + 1], l[i])

\* no duplicates, sorted, and without 'none'
canonical(l) == duplicateFree(l) /\ inSortedOrder(l) /\ ~setHas(l, "none")

\* the step is a press of an effect button
effectToggled == lastEvent'.kind = "effect"

layerIdsOf(blocks) == [i \in 1..Len(blocks) |-> blocks[i].id]

\* the step hands one layer to handleTextBlockUpdate: a panel edit or a frame of a drag
layerUpdated == lastEvent'.kind \in {"text", "effect", "moved", "resized"}

\* C32 -- layer list stability: every step other than the load of a preset (panel
\* edits, frames of a drag, inspiration, clear-all, pointer events, saves, canvas
\* sizes) leaves the list with the same pairwise distinct ids in the same order, and a
\* step that hands a layer to handleTextBlockUpdate changes no layer but the one
\* with the id of the layer handed over.
LayerListStable ==
    [][ lastEvent'.kind # "load"
          => /\ duplicateFree(layerIdsOf(textBlocks))
             /\ layerIdsOf(textBlocks') = layerIdsOf(textBlocks)
             /\ layerUpdated
                  => \A i \in 1..Len(textBlocks) :
                        textBlocks'[i] # textBlocks[i] => textBlocks[i].id = lastEvent'.id
      ]_vars

\* a frame of a drag has moved the title: the three layers are the seeded ones in
\* their order, and the subtitles are as they were
LayerListStableWitness ==
    /\ lastEvent.kind = "moved"
    /\ lastEvent.id = "main"
    /\ layerIdsOf(textBlocks) = <<"main", "sub1", "sub2">>
    /\ textBlocks[1].x # initialTextBlocks(activeCanvasSize("youtube_thumb"))[1].x
    /\ textBlocks[2] = initialTextBlocks(activeCanvasSize("youtube_thumb"))[2]

\* the four components of the composition state a preset holds
compositionOf(preset) ==
    <<preset.canvasSizeId, preset.backgroundImage, preset.textBlocks,
      preset.selectedTextBlockId>>

\* the preset saved last
newestPreset(list) == list[Len(list)]

\* C33 -- preset load replaces the state wholesale: after handleLoadPreset(p) the
\* canvas size id, background image, layer list and selected layer id are those of a
\* preset p of the list; a save leaves the four components as they are and stores
\* them in the newest preset, and loading that preset right after the save leaves
\* the four components unchanged.
PresetLoadWholesale ==
    [][ /\ lastEvent'.kind = "load"
            => \E i \in 1..Len(presets.state) : appVars' = compositionOf(presets.state[i])
        /\ lastEvent'.kind = "save"
            => /\ appVars' = appVars
               /\ Len(presets'.state) = Len(presets.state) + 1
               /\ compositionOf(newestPreset(presets'.state)) = appVars
        /\ (/\ lastEvent.kind = "save"
            /\ lastEvent'.kind = "load"
            /\ appVars' = compositionOf(newestPreset(presets.state)))
            => appVars' = appVars ]_vars

\* the first stored preset was loaded over the seeded composition, after a save: the
\* canvas is square with the stored background and the stored layers
PresetLoadWholesaleWitness ==
    /\ lastEvent.kind = "load"
    /\ Len(presets.state) = 3
    /\ appVars = compositionOf(presets.state[1])
    /\ appVars # compositionOf(presets.state[3])

\* C39 -- clear-all is an idempotent reset to the pristine state: after handleClear
\* isPristine holds, and handleClear would set the four components of the
\* composition to the values they have.
ClearAllIdempotent ==
    lastEvent.kind = "clear"
      => /\ isPristine
         /\ appVars = <<"square", "null",
                        initialTextBlocks(activeCanvasSize(canvasSizeId)), "main">>

\* the step is a pointer-down that hit a layer
pointerDownHit == lastEvent'.kind \in {"down", "dot"} /\ lastEvent'.id # "null"

\* C34 -- drag state is never in an illegal combination: after every step isDragging
\* holds exactly when draggedTextBlockId names a layer of the list; when isDragging is
\* false the mode is 'move', the anchor offset (0, 0) and initialFontSize 0; when the
\* mode is 'resize' a dragged layer exists and initialFontSize is the font size that
\* layer had at the pointer-down: the pointer-down stores it and no other step
\* changes it.
DragStateLegal ==
    [][ /\ isDragging' <=> findIndex(textBlocks', draggedTextBlockId') # 0
        /\ ~isDragging' => /\ dragMode' = "move"
                           /\ dragOffset' = [x |-> 0, y |-> 0]
                           /\ initialFontSize' = 0
        /\ dragMode' = "resize"
             => /\ isDragging'
                /\ findIndex(textBlocks', draggedTextBlockId') # 0
                /\ IF pointerDownHit
                   THEN /\ draggedTextBlockId' = lastEvent'.id
                        /\ initialFontSize' =
                             textBlocks[findIndex(textBlocks, lastEvent'.id)].fontSize
                   ELSE /\ draggedTextBlockId' = draggedTextBlockId
                        /\ initialFontSize' = initialFontSize ]_vars

\* a Resize drag of the title is under way and a frame has enlarged the title:
\* initialFontSize is still the 120 of the pointer-down
DragStateLegalWitness ==
    /\ isDragging /\ dragMode = "resize" /\ draggedTextBlockId = "main"
    /\ lastEvent.kind = "resized"
    /\ initialFontSize = 120
    /\ textBlocks[1].fontSize > 120

-----------------------------------------------------------------------------
(* Properties of the drag controller outside and inside a drag (SpecDrag) *)

\* C35 -- no layer mutation outside a drag: a step changes a layer or the guides
\* only while the controller is dragging (a pointer-move or a frame callback that
\* comes in Idle changes neither), and after a pointer-up no frame callback is
\* pending.
NoMutationOutsideDrag ==
    [][ /\ (textBlocks' # textBlocks \/ alignmentGuides' # alignmentGuides) => isDragging
        /\ lastEvent'.kind = "up" => frames' = {} ]_vars

\* C36 -- drag updates touch only what the gesture controls: a frame callback of a
\* Move drag changes only x and y of the dragged layer and one of a Resize drag only
\* its fontSize; every other field of that layer keeps the value it has when the
\* callback runs, and every other layer is unchanged.
DragUpdateTouchesOnlyItsFields ==
    [][ lastEvent'.kind \in {"moved", "resized"}
          => \A i \in 1..Len(textBlocks) :
                IF textBlocks[i].id # lastEvent'.id
                THEN textBlocks'[i] = textBlocks[i]
                ELSE IF lastEvent'.kind = "moved"
                THEN textBlocks'[i] = [textBlocks[i] EXCEPT !.x = textBlocks'[i].x,
                                                            !.y = textBlocks'[i].y]
                ELSE textBlocks'[i] = [textBlocks[i] EXCEPT
                                          !.fontSize = textBlocks'[i].fontSize] ]_vars

\* the bounding box of the layer is inside the canvas
insideCanvas(tb) ==
    /\ tb.x >= 0 /\ tb.x + getTextWidth(tb.text, tb.fontSize) <= Px(canvasWidth)
    /\ tb.y >= 0 /\ tb.y + textHeight(tb) <= Px(canvasHeight)

\* the point handleMouseDown measured the anchor offset of the drag from: the top
\* left corner in Move mode, and in Resize mode the bottom right corner of a text
\* 0.8 font sizes wide per character
anchorOf(tb) ==
    IF dragMode = "resize"
    THEN [x |-> tb.x + Len(tb.text) * tb.fontSize * 8, y |-> tb.y + textHeight(tb)]
    ELSE [x |-> tb.x, y |-> tb.y]

\* the step is the frame callback of the first pointer-move of the first drag, and
\* that move came at the position of the pointer-down, which in Resize mode landed
\* inside the resize handle
zeroDisplacementFrame(tb) ==
    /\ nEvents = 2 /\ lastEvent.kind = "move"
    /\ lastEvent'.kind \in {"moved", "resized"}
    /\ lastEvent'.x = dragOffset.x + anchorOf(tb).x
    /\ lastEvent'.y = dragOffset.y + anchorOf(tb).y
    /\ dragMode = "resize" => inResizeHandle(tb, lastEvent'.x, lastEvent'.y)

\* C37 -- a drag with zero displacement is a no-op: for a layer whose bounding box
\* is inside the canvas, the frame callback of a pointer-move at the position of the
\* pointer-down leaves the layer's position and font size unchanged, in Move mode
\* and in Resize mode.
ZeroDisplacementDragIsNoOp ==
    [][ LET i  == findIndex(textBlocks, draggedTextBlockId)
            tb == textBlocks[i]
        IN  (i # 0 /\ insideCanvas(tb) /\ zeroDisplacementFrame(tb))
              => /\ textBlocks'[i].x = tb.x
                 /\ textBlocks'[i].y = tb.y
                 /\ textBlocks'[i].fontSize = tb.fontSize ]_vars

-----------------------------------------------------------------------------
(* Properties of resize drags with panel edits (Spec) *)

=============================================================================
